---- MODULE Spec2Model ----
(***************************************************************************)
(* Model of the d2xx driver of periph/extra: the FT232H (MPSSE, "rich      *)
(* tier") and FT232R (synchronous bit-bang, "simple tier") device handles, *)
(* their bus claims, pin caches, bring-up and the I2C engine.              *)
(*                                                                         *)
(* Frequencies are in Hertz (physic.Hertz is taken as 1).                  *)
(***************************************************************************)
EXTENDS Integers, Naturals, Sequences, FiniteSets, TLC

VARIABLES
    usingI2C,       \* FT232H.usingI2C                        dev.go:312
    usingSPI,       \* FT232H.usingSPI                        dev.go:313
    maxFreq,        \* spiMPSEEPort.maxFreq, 0 when unset     spi.go:31
    connFlags,      \* spiMPSEEConn fields set by Connect()   spi.go:156-161
    dbusDirection,  \* FT232H.dbus.direction (cache)          mpsse.go:379
    dbusValue,      \* FT232H.dbus.value (cache)              mpsse.go:380
    devD,           \* last <<value, direction>> frame the device got for bank D
    i2cOpen,        \* "never": no bus handed out; "open": I2C() returned a bus
                    \* whose Close() was not called yet; "closed" after Close()
    spiPort,        \* SPI() has returned a port to the caller
    last,           \* the last call made on the handle and what it returned
    \* several threads on one handle
    cbusValue,      \* FT232H.cbus.value (cache)              mpsse.go:380
    pc,             \* per thread: the transport call its operation is at
    rxQueue,        \* reply bytes queued by the device, oldest first
    wire,           \* the commands the device received, oldest first
    got,            \* per thread: the reply its last read returned
    \* driver.Init and the bring-up of each device
    bDevs,          \* the chip type of each enumerated device
    bIdx,           \* i of the loop of driver.Init
    bpc,            \* where open(i) is
    blog,           \* the transport calls open(i) has made, oldest first
    bVer,           \* the result of each mpsseVerify of open(i), and the
                    \* length of blog when the last one succeeded
    bRet,           \* what open(i) returned
    hcache,         \* the bank caches of the FT232H being built
    rcache,         \* cbusnibble and dvalue of the FT232R being built
    all,            \* driver.all                             driver.go:32
    bOpenRes,       \* what each open(i) returned, in call order
    initRes,        \* what driver.Init returned
    \* one I2C transaction
    itx,            \* the arguments of i2cBus.Tx, where it is, what it returned
    iwire,          \* what the transaction put on the bus, oldest first
    \* one caller of mpsseClock
    ck,             \* the target frequency and what each call programmed
    \* one caller of the SPI port of an FT232H
    port,           \* spiMPSEEPort.maxFreq, its spiMPSEEConn, FT232H.usingSPI
    devClock,       \* the last clock command the device received
    spiCall,        \* the last call: its arguments, what it wrote and returned
    lowest,         \* the lowest frequency a call that returned nil asked
                    \* for since the port was acquired
    \* one spiSyncConn.TxPackets of one byte on an FT232R
    sy,             \* the byte, the settings, the frames and the byte read
    \* one caller of the pins of bank D of an FT232H
    pinCall,        \* the last pin call: its arguments, the transport calls
                    \* it made and what it returned
    \* one call of device.mpsseTx
    mtx,            \* its arguments, what it wrote and what it returned
    \* one caller of an FT232R in synchronous bit-bang mode, no SPI connection
    ft,             \* f.dmask and f.dvalue
    rq,             \* sample bytes left unread in the receive queue
    rcall,          \* the last call: its arguments, its I/O and its result
    \* one call of device.mpsseVerify
    vf,             \* where it is, the probe, the polls made, the echo the
                    \* device sends and when, and what it returned
    \* one caller of the line-level helpers of i2cBus
    il              \* the last helper run: the caches it found and the
                    \* pin-bank frames of the command it built

handleVars == <<usingI2C, usingSPI, maxFreq, connFlags, dbusDirection,
                dbusValue, devD, i2cOpen, spiPort, last>>

concVars == <<cbusValue, pc, rxQueue, wire, got>>

concVarsButWire == <<cbusValue, pc, rxQueue, got>>

bringVars == <<bDevs, bIdx, bpc, blog, bVer, bRet, hcache, rcache, all,
              bOpenRes, initRes>>

i2cVars == <<itx, iwire>>

clockVars == <<ck>>

spiVars == <<port, devClock, spiCall, lowest>>

syncVars == <<sy>>

pinVars == <<pinCall>>

txVars == <<mtx>>

rVars == <<ft, rq, rcall>>

vVars == <<vf>>

lVars == <<il>>

\* The variables the single-caller handle model leaves alone.
outsideHandle == <<concVars, bringVars, i2cVars, clockVars, spiVars, syncVars, pinVars, txVars, rVars, vVars, lVars>>

\* The variables the concurrent model leaves alone.
outsideConc == <<bringVars, i2cVars, clockVars, spiVars, syncVars, pinVars, txVars, rVars, vVars, lVars>>

\* The variables the bring-up model leaves alone.
outsideBring == <<handleVars, concVars, i2cVars, clockVars, spiVars, syncVars, pinVars, txVars, rVars, vVars, lVars>>

\* The variables the I2C transaction model leaves alone.
outsideI2C == <<handleVars, concVars, bringVars, clockVars, spiVars, syncVars, pinVars, txVars, rVars, vVars, lVars>>

\* The variables the clock model leaves alone.
outsideClock == <<handleVars, concVars, bringVars, i2cVars, spiVars, syncVars, pinVars, txVars, rVars, vVars, lVars>>

\* The variables the SPI port model leaves alone.
outsideSPI == <<handleVars, concVars, bringVars, i2cVars, clockVars, syncVars, pinVars, txVars, rVars, vVars, lVars>>

\* The variables the bit-bang SPI model leaves alone.
outsideSync == <<handleVars, concVars, bringVars, i2cVars, clockVars, spiVars,
                 pinVars, txVars, rVars, vVars, lVars>>

\* The variables the pin model leaves alone, the handle apart.
outsidePin == <<concVars, bringVars, i2cVars, clockVars, spiVars, syncVars, txVars, rVars, vVars, lVars>>

vars == <<handleVars, concVars, bringVars, i2cVars, clockVars, spiVars, syncVars, pinVars, txVars, rVars, vVars, lVars>>

----------------------------------------------------------------------------
\* Bounds of the model.

\* Pins D0..D(MaxPin) are driven through their gpio.PinIO in the handle model.
MaxPin == 1

\* Threads using one handle concurrently.
NThreads == 2

\* Devices enumerated by driver.Init.
MaxDevices == 2


\* The calls of mpsseClock one caller makes with one target.
MaxClockCalls == 2

\* The longest write buffer and the longest read buffer of an I2C Tx.
MaxWriteLen == 2

MaxReadLen == 2

\* Commands the device receives in one run of the concurrent model before
\* the threads stop starting new operations.
MaxWire == 2

\* packets of one TxPackets call on the bit-bang SPI connection
MaxSyncPkts == 2

\* sample bytes the receive queue of the FT232R holds at most
MaxQueue == 3

\* polls of mpsseVerify that fit in its 200 ms
MaxPolls == 3

----------------------------------------------------------------------------
\* Bytes.

Bit(b, n) == (b \div (2 ^ n)) % 2

\* b | (1 << n), on 8 bits
SetBit(b, n) == IF Bit(b, n) = 1 THEN b ELSE b + 2 ^ n

\* b &^ (1 << n)
ClearBit(b, n) == IF Bit(b, n) = 1 THEN b - 2 ^ n ELSE b

\* a & b
BitAnd(a, b) ==
    Bit(a, 0) * Bit(b, 0) + 2 * Bit(a, 1) * Bit(b, 1)
    + 4 * Bit(a, 2) * Bit(b, 2) + 8 * Bit(a, 3) * Bit(b, 3)
    + 16 * Bit(a, 4) * Bit(b, 4) + 32 * Bit(a, 5) * Bit(b, 5)
    + 64 * Bit(a, 6) * Bit(b, 6) + 128 * Bit(a, 7) * Bit(b, 7)

\* a | b
BitOr(a, b) == a + b - BitAnd(a, b)

----------------------------------------------------------------------------
\* Program constants.

Hertz == 1
KiloHertz == 1000
MegaHertz == 1000000
GigaHertz == 1000000000

\* i2c.go:109-111, spi.go:92-95
i2cD0 == 1
i2cD1 == 2
i2cD2 == 4
spiClk == 1
spiMosi == 2
spiMiso == 4
spiCs == 8

\* spi.Mode flag bits of periph's conn/spi
spiHalfDuplex == 4
spiNoCS == 8
spiLSBFirst == 16

\* What the bring-up variables hold outside the bring-up model.
NoRet == [ok |-> FALSE, kind |-> "none", err |-> "none"]

NoInit == [done |-> FALSE, ok |-> FALSE, err |-> "none", enumerated |-> FALSE, regFailed |-> FALSE]

NoTx == [at |-> "idle", addr |-> 0, w |-> <<>>, nr |-> 0, i |-> 0, ret |-> "none", r |-> <<>>]

NoClock == [f |-> 0, calls |-> <<>>]

NoHCache == [cdir |-> 0, cval |-> 0, ddir |-> 0, dval |-> 0]

NoRCache == [cbusnibble |-> 0, dvalue |-> 0, dmask |-> 0]

----------------------------------------------------------------------------
\* Inputs of the handle model.

\* Frequencies passed to Connect() and LimitSpeed(): below the floor, in
\* range, above the 30MHz ceiling, above the 1GHz sanity limit.
Freqs == {50 * Hertz, MegaHertz, 40 * MegaHertz, 2 * GigaHertz}

\* spi.Mode values passed to Connect(): Mode0, Mode2|NoCS, HalfDuplex and a
\* value with an unknown high bit.
Modes == {0, 2 + spiNoCS, spiHalfDuplex, 32}

\* bits per word passed to Connect()
BitsPerWord == {7, 8}

Pins == 0 .. MaxPin

Levels == {0, 1}

NoFlags == [edgeInvert |-> FALSE, clkActiveLow |-> FALSE, noCS |-> FALSE,
            lsbFirst |-> FALSE, halfDuplex |-> FALSE]

Call(op, res) == [op |-> op, res |-> res, afterI2CClose |-> FALSE]

NoPort == [maxFreq |-> 0, c |-> NoFlags, usingSPI |-> FALSE]

NoSPICall == [op |-> "SPI", f |-> 0, m |-> 0, pkts |-> <<>>, res |-> "ok",
              wire |-> <<>>]

NoSync == [at |-> "idle"]

\* No call of mpsseVerify made.
NoVerify == [at |-> "idle"]

NoLines == [op |-> "none", dir0 |-> 0, v0 |-> 0, frames |-> <<>>, ok |-> TRUE]

\* No call made on the FT232R.
NoRCall == [op |-> "none"]

\* No call of mpsseTx made.
NoMpsseTx == [at |-> "idle"]

\* No level handed back by a pin call.
NoLevel == 0 - 1

NoPinCall == [op |-> "none", n |-> 0, l |-> 0, io |-> 0, failed |-> FALSE,
              res |-> "ok", ret |-> NoLevel, fn |-> "none"]

----------------------------------------------------------------------------
\* i2cBus helpers (i2c.go).

\* setI2CLinesIdle: the cache keeps D3..D7, D0 and D1 become outputs, the
\* cached value of D0..D2 is cleared; the frame written is
\* <<value | D0 | D1, direction>>.
idleMask == 255 - (i2cD0 + i2cD1 + i2cD2)

setI2CLinesIdleDirection(dir) == BitOr(BitAnd(dir, idleMask), i2cD0 + i2cD1)

setI2CLinesIdleValue(v) == BitAnd(v, idleMask)

setI2CLinesIdleFrame(dir, v) ==
    <<BitOr(setI2CLinesIdleValue(v), i2cD0 + i2cD1),
      setI2CLinesIdleDirection(dir)>>

\* FT232H.I2C(): fails fast when a claim is held; otherwise setupI2C(), and
\* stopI2C() when setupI2C() failed.  w1 is the outcome of the write of the
\* engine configuration, w2 of the idle frame.
I2CClaimGuard == IF usingI2C THEN "errI2C" ELSE IF usingSPI THEN "errSPI" ELSE "ok"

\* FT232H.I2C() without the stopI2C() of its error path.
FT232H_I2CNoStop ==
    /\ \/ /\ I2CClaimGuard # "ok"
          /\ last' = Call("I2C", I2CClaimGuard)
          /\ UNCHANGED <<usingI2C, usingSPI, maxFreq, connFlags, dbusDirection,
                         dbusValue, devD, i2cOpen, spiPort>>
       \/ /\ I2CClaimGuard = "ok"
          /\ \E w1, w2 \in BOOLEAN :
               IF ~w1
               THEN /\ usingI2C' = FALSE
                    /\ last' = Call("I2C", "errIO")
                    /\ UNCHANGED <<dbusDirection, dbusValue, devD, i2cOpen>>
               ELSE /\ dbusDirection' = setI2CLinesIdleDirection(dbusDirection)
                    /\ dbusValue' = setI2CLinesIdleValue(dbusValue)
                    /\ usingI2C' = TRUE
                    /\ IF w2
                       THEN /\ devD' = setI2CLinesIdleFrame(dbusDirection, dbusValue)
                            /\ i2cOpen' = "open"
                            /\ last' = Call("I2C", "ok")
                       ELSE /\ last' = Call("I2C", "errIO")
                            /\ UNCHANGED <<devD, i2cOpen>>
          /\ UNCHANGED <<usingSPI, maxFreq, connFlags, spiPort>>
    /\ UNCHANGED outsideHandle

FT232H_I2C ==
    /\ \/ /\ I2CClaimGuard # "ok"
          /\ last' = Call("I2C", I2CClaimGuard)
          /\ UNCHANGED <<usingI2C, usingSPI, maxFreq, connFlags, dbusDirection,
                         dbusValue, devD, i2cOpen, spiPort>>
       \/ /\ I2CClaimGuard = "ok"
          /\ \E w1, w2 \in BOOLEAN :
               IF ~w1
               THEN \* writeAll(cmd) failed: usingI2C was never set, stopI2C()
                    /\ usingI2C' = FALSE
                    /\ last' = Call("I2C", "errIO")
                    /\ UNCHANGED <<dbusDirection, dbusValue, devD, i2cOpen>>
               ELSE /\ dbusDirection' = setI2CLinesIdleDirection(dbusDirection)
                    /\ dbusValue' = setI2CLinesIdleValue(dbusValue)
                    /\ IF w2
                       THEN /\ devD' = setI2CLinesIdleFrame(dbusDirection, dbusValue)
                            /\ usingI2C' = TRUE
                            /\ i2cOpen' = "open"
                            /\ last' = Call("I2C", "ok")
                       ELSE \* setI2CLinesIdle() failed: stopI2C() drops the claim
                            /\ usingI2C' = FALSE
                            /\ last' = Call("I2C", "errIO")
                            /\ UNCHANGED <<devD, i2cOpen>>
          /\ UNCHANGED <<usingSPI, maxFreq, connFlags, spiPort>>
    /\ UNCHANGED outsideHandle

\* i2cBus.Close(): stopI2C() under the lock; the claim is dropped whether or
\* not the write succeeded.  The caller may call it on any bus it was handed,
\* also one it has closed before.
I2CClose ==
    /\ i2cOpen # "never"
    /\ \E w \in BOOLEAN :
         last' = [op |-> "I2CClose", res |-> IF w THEN "ok" ELSE "errIO",
                  afterI2CClose |-> FALSE]
    /\ usingI2C' = FALSE
    /\ i2cOpen' = "closed"
    /\ UNCHANGED <<usingSPI, maxFreq, connFlags, dbusDirection, dbusValue,
                   devD, spiPort>>
    /\ UNCHANGED outsideHandle

\* FT232H.SPI(): fails fast when a claim is held; otherwise hands out the
\* port without taking the claim.
SPIClaimGuard == IF usingI2C THEN "errI2C" ELSE IF usingSPI THEN "errSPI" ELSE "ok"

FT232H_SPI ==
    /\ last' = [op |-> "SPI", res |-> SPIClaimGuard,
                afterI2CClose |-> (last.op = "I2CClose")]
    /\ spiPort' = (spiPort \/ SPIClaimGuard = "ok")
    /\ UNCHANGED <<usingI2C, usingSPI, maxFreq, connFlags, dbusDirection,
                   dbusValue, devD, i2cOpen>>
    /\ UNCHANGED outsideHandle

----------------------------------------------------------------------------
\* MPSSE clock (i2c.go:548-563).

clockBase == 30 * MegaHertz

\* mpsseClock(f): the base clock and divisor chosen for f; a zero f divides by
\* zero, which panics.
mpsseClock(f) ==
    IF f = 0 THEN [err |-> "panic", base |-> 0, div |-> 0]
    ELSE IF clockBase \div f < 65536
         THEN [err |-> "none", base |-> clockBase, div |-> clockBase \div f]
         ELSE IF (clockBase \div 5) \div f < 65536
              THEN [err |-> "none", base |-> clockBase \div 5,
                    div |-> (clockBase \div 5) \div f]
              ELSE [err |-> "tooLow", base |-> clockBase \div 5,
                    div |-> (clockBase \div 5) \div f]

----------------------------------------------------------------------------
\* spiMPSEEPort (spi.go:34-130).

\* mpsseDBus(mask, value): the two bytes written after the gpioSetD opcode,
\* in the order written.  devD holds them in that order; the engine takes
\* the first as the value and the second as the direction.
mpsseDBus(mask, value) == <<mask, value>>

\* The frequency after the ceiling clamp of Connect() and LimitSpeed().
clampFreq(f) == IF f > 30 * MegaHertz THEN 30 * MegaHertz ELSE f

\* The checks of Connect() made before the lock is taken.
connectArgCheck(f, bits) ==
    IF f > GigaHertz THEN "errSpeed"
    ELSE IF clampFreq(f) < 100 * Hertz THEN "errSpeed"
    ELSE IF bits % 8 # 0 THEN "errBits"
    ELSE IF bits # 8 THEN "errBits"
    ELSE "ok"

\* m &^ (NoCS | HalfDuplex | LSBFirst)
modeBits(m) == m - spiNoCS * Bit(m, 3) - spiHalfDuplex * Bit(m, 2)
                 - spiLSBFirst * Bit(m, 4)

\* The connection flags Connect() stores for mode m; edgeInvert and
\* clkActiveLow are stored only when the mode passed the checks.
connectFlags(m, old) ==
    [noCS |-> Bit(m, 3) = 1,
     halfDuplex |-> Bit(m, 2) = 1,
     lsbFirst |-> Bit(m, 4) = 1,
     edgeInvert |-> IF Bit(m, 2) = 1 \/ modeBits(m) > 3 THEN old.edgeInvert
                    ELSE Bit(m, 0) = 1,
     clkActiveLow |-> IF Bit(m, 2) = 1 \/ modeBits(m) > 3 THEN old.clkActiveLow
                      ELSE Bit(m, 1) = 1]

\* The value byte Connect() writes with direction mosi|clk|cs.
connectValue(flags) ==
    (IF flags.noCS THEN 0 ELSE spiCs) + (IF flags.clkActiveLow THEN spiClk ELSE 0)

\* spiMPSEEPort.Connect(f, m, bits).  w1 is the outcome of the write made by
\* mpsseClock, w2 of the one made by mpsseDBus.
Connect(f, m, bits) ==
    /\ spiPort
    /\ IF connectArgCheck(f, bits) # "ok"
       THEN /\ last' = Call("Connect", connectArgCheck(f, bits))
            /\ UNCHANGED <<usingSPI, maxFreq, connFlags, devD>>
       ELSE
         LET cf == clampFreq(f)
             flags == connectFlags(m, connFlags)
             reclock == (maxFreq = 0 \/ cf < maxFreq)
             clk == mpsseClock(maxFreq)
         IN  /\ connFlags' = flags
             /\ IF flags.halfDuplex
                THEN /\ last' = Call("Connect", "errHalfDuplex")
                     /\ UNCHANGED <<usingSPI, maxFreq, devD>>
                ELSE IF modeBits(m) > 3
                THEN /\ last' = Call("Connect", "errMode")
                     /\ UNCHANGED <<usingSPI, maxFreq, devD>>
                ELSE IF reclock /\ clk.err # "none"
                THEN /\ last' = Call("Connect", IF clk.err = "panic" THEN "panic"
                                                ELSE "errSpeed")
                     /\ UNCHANGED <<usingSPI, maxFreq, devD>>
                ELSE \E w1, w2 \in BOOLEAN :
                       IF reclock /\ ~w1
                       THEN /\ last' = Call("Connect", "errIO")
                            /\ UNCHANGED <<usingSPI, maxFreq, devD>>
                       ELSE /\ maxFreq' = IF reclock THEN cf ELSE maxFreq
                            /\ IF w2
                               THEN /\ devD' = mpsseDBus(spiMosi + spiClk + spiCs,
                                                       connectValue(flags))
                                    /\ usingSPI' = TRUE
                                    /\ last' = Call("Connect", "ok")
                               ELSE /\ last' = Call("Connect", "errIO")
                                    /\ UNCHANGED <<usingSPI, devD>>
    /\ UNCHANGED <<usingI2C, dbusDirection, dbusValue, i2cOpen, spiPort>>
    /\ UNCHANGED outsideHandle

\* spiMPSEEPort.LimitSpeed(f).  w is the outcome of the write made by
\* mpsseClock; maxFreq is stored before the clock is programmed.
LimitSpeed(f) ==
    /\ spiPort
    /\ IF f > GigaHertz \/ clampFreq(f) < 100 * Hertz
       THEN /\ last' = Call("LimitSpeed", "errSpeed")
            /\ UNCHANGED maxFreq
       ELSE IF maxFreq # 0 /\ maxFreq <= clampFreq(f)
       THEN /\ last' = Call("LimitSpeed", "ok")
            /\ UNCHANGED maxFreq
       ELSE /\ maxFreq' = clampFreq(f)
            /\ \E w \in BOOLEAN :
                 last' = Call("LimitSpeed",
                              IF mpsseClock(clampFreq(f)).err # "none" THEN "errSpeed"
                              ELSE IF w THEN "ok" ELSE "errIO")
    /\ UNCHANGED <<usingI2C, usingSPI, connFlags, dbusDirection, dbusValue,
                   devD, i2cOpen, spiPort>>
    /\ UNCHANGED outsideHandle

\* spiMPSEEPort.Close(): drops the SPI claim and forgets the configuration.
SPIClose ==
    /\ spiPort
    /\ usingSPI' = FALSE
    /\ maxFreq' = 0
    /\ connFlags' = NoFlags
    /\ last' = Call("SPIClose", "ok")
    /\ UNCHANGED <<usingI2C, dbusDirection, dbusValue, devD, i2cOpen, spiPort>>
    /\ UNCHANGED outsideHandle

----------------------------------------------------------------------------
\* Raw GPIO on bank D of the FT232H (mpsse.go:398-436, dev.go:347-349).

\* gpiosMPSSE.out(n, l): the cache is updated, then the frame is written.
outDirection(dir, n) == SetBit(dir, n)

outValue(v, n, l) == IF l = 1 THEN SetBit(v, n) ELSE ClearBit(v, n)

PinOut(n, l) ==
    /\ dbusDirection' = outDirection(dbusDirection, n)
    /\ dbusValue' = outValue(dbusValue, n, l)
    /\ \E w \in BOOLEAN :
         IF w
         THEN /\ devD' = mpsseDBus(outDirection(dbusDirection, n),
                                outValue(dbusValue, n, l))
              /\ last' = Call("PinOut", "ok")
         ELSE /\ UNCHANGED devD
              /\ last' = Call("PinOut", "errIO")
    /\ UNCHANGED <<usingI2C, usingSPI, maxFreq, connFlags, i2cOpen, spiPort>>
    /\ UNCHANGED outsideHandle

\* gpiosMPSSE.in(n)
inDirection(dir, n) == ClearBit(dir, n)

PinIn(n) ==
    /\ dbusDirection' = inDirection(dbusDirection, n)
    /\ \E w \in BOOLEAN :
         IF w
         THEN /\ devD' = mpsseDBus(inDirection(dbusDirection, n), dbusValue)
              /\ last' = Call("PinIn", "ok")
         ELSE /\ UNCHANGED devD
              /\ last' = Call("PinIn", "errIO")
    /\ UNCHANGED <<usingI2C, usingSPI, maxFreq, connFlags, dbusValue, i2cOpen,
                   spiPort>>
    /\ UNCHANGED outsideHandle

----------------------------------------------------------------------------
\* The handle model: one FT232H after a successful bring-up, used by one
\* caller.

Init ==
    /\ usingI2C = FALSE
    /\ usingSPI = FALSE
    /\ maxFreq = 0
    /\ connFlags = NoFlags
    /\ dbusDirection = 0
    /\ dbusValue = 0
    /\ devD = <<0, 0>>
    /\ i2cOpen = "never"
    /\ spiPort = FALSE
    /\ last = Call("open", "ok")
    /\ cbusValue = 0
    /\ pc = <<>>
    /\ rxQueue = <<>>
    /\ wire = <<>>
    /\ got = <<>>
    /\ bDevs = <<>>
    /\ bIdx = 0
    /\ bpc = [at |-> "off", attempt |-> 0, probe |-> 0]
    /\ blog = <<>>
    /\ bVer = [res |-> <<>>, at |-> 0]
    /\ bRet = NoRet
    /\ hcache = NoHCache
    /\ rcache = NoRCache
    /\ all = <<>>
    /\ bOpenRes = <<>>
    /\ initRes = NoInit
    /\ itx = NoTx
    /\ iwire = <<>>
    /\ ck = NoClock
    /\ port = NoPort
    /\ devClock = <<>>
    /\ spiCall = NoSPICall
    /\ lowest = 0
    /\ sy = NoSync
    /\ pinCall = NoPinCall
    /\ mtx = NoMpsseTx
    /\ ft = [dmask |-> 0, dvalue |-> 0]
    /\ rq = 0
    /\ rcall = NoRCall
    /\ vf = NoVerify
    /\ il = NoLines

Next ==
    \/ FT232H_I2C
    \/ I2CClose
    \/ FT232H_SPI
    \/ \E f \in Freqs, m \in Modes, bits \in BitsPerWord : Connect(f, m, bits)
    \/ \E f \in Freqs : LimitSpeed(f)
    \/ SPIClose
    \/ \E n \in Pins, l \in Levels : PinOut(n, l)
    \/ \E n \in Pins : PinIn(n)

Spec == Init /\ [][Next]_vars

----------------------------------------------------------------------------
\* Claims about the bus claim of one FT232H handle.

\* C1: SPI() called while an I2C bus is open fails with the "already using
\* I2C" exclusivity error, and SPI() called right after that bus's Close()
\* has returned succeeds.
C1_SPIAfterI2CClose ==
    last.op = "SPI" =>
        /\ (i2cOpen = "open" => last.res = "errI2C")
        /\ (last.afterI2CClose => last.res = "ok")

\* C2: at most one of the I2C claim and the SPI claim is held, whatever the
\* order of the I2C(), SPI(), Connect(), LimitSpeed() and Close() calls.
C2_AtMostOneClaim == ~(usingI2C /\ usingSPI)

\* The bits of the shared pins D0..D3 of a byte.
sharedBits(b) == b % 16

\* C3: while a bus claim is held, a raw-GPIO operation on a shared pin
\* (D0..D3) is rejected and leaves the direction and value of the shared pins
\* unchanged in the cache and on the device.
C3_SharedPinsProtected ==
    [][((usingI2C \/ usingSPI) /\ last'.op \in {"PinOut", "PinIn"}) =>
          /\ last'.res = "errClaimed"
          /\ sharedBits(dbusDirection') = sharedBits(dbusDirection)
          /\ sharedBits(dbusValue') = sharedBits(dbusValue)
          /\ sharedBits(devD'[1]) = sharedBits(devD[1])
          /\ sharedBits(devD'[2]) = sharedBits(devD[2])]_vars

----------------------------------------------------------------------------
\* Several threads on one FT232H handle.  None of gpioMPSSE.Read,
\* gpioMPSSE.Out and spiMPSEEConn.TxPackets takes FT232H.mu, so a thread's
\* position is the transport call (device.write or device.read) it is at;
\* each transport call is atomic.  The device answers a read command at
\* once; a reply is tagged with the thread whose command produced it.

Threads == 1 .. NThreads

gpioReadD == 129
gpioReadC == 131

\* The byte a bank read or a shift returns when the device answers.
ReplyBytes == {0, 255}

NoReply == [owner |-> 0, kind |-> "none", value |-> 0]

Sent(t, cmd) == Append(wire, [t |-> t, cmd |-> cmd])

CanStart(t) == pc[t] = "idle" /\ Len(wire) < MaxWire

\* device.read(b) with len(b) = 1: pops the oldest queued byte; with an empty
\* queue it returns 0 bytes and no error, and b keeps what it held.
readOne(held) ==
    IF rxQueue = <<>> THEN [owner |-> 0, kind |-> "none", value |-> held]
    ELSE Head(rxQueue)

\* mpsseDBusRead / mpsseCBusRead, first half: write the read opcode.
BankReadWrite(t, bank) ==
    /\ CanStart(t)
    /\ \E w \in BOOLEAN, v \in ReplyBytes :
         IF w
         THEN /\ wire' = Sent(t, IF bank = "D" THEN "gpioReadD" ELSE "gpioReadC")
              /\ rxQueue' = Append(rxQueue, [owner |-> t, kind |-> bank, value |-> v])
              /\ pc' = [pc EXCEPT ![t] = IF bank = "D" THEN "readD" ELSE "readC"]
         ELSE UNCHANGED <<wire, rxQueue, pc>>
    /\ got' = [got EXCEPT ![t] = NoReply]
    /\ UNCHANGED <<handleVars, cbusValue>>
    /\ UNCHANGED outsideConc

\* mpsseDBusRead / mpsseCBusRead, second half, and gpiosMPSSE.read: read one
\* byte and store it as the bank's cached value.
BankReadReply(t) ==
    /\ pc[t] \in {"readD", "readC"}
    /\ \E r \in BOOLEAN :
         IF r
         THEN LET b == readOne(IF pc[t] = "readD" THEN gpioReadD ELSE gpioReadC)
              IN  /\ got' = [got EXCEPT ![t] = [b EXCEPT !.kind =
                                IF b.kind = "none" THEN "none"
                                ELSE IF b.kind = (IF pc[t] = "readD" THEN "D" ELSE "C")
                                     THEN "own" ELSE "other"]]
                  /\ rxQueue' = IF rxQueue = <<>> THEN rxQueue ELSE Tail(rxQueue)
                  /\ IF pc[t] = "readD"
                     THEN dbusValue' = b.value /\ UNCHANGED cbusValue
                     ELSE cbusValue' = b.value /\ UNCHANGED dbusValue
         ELSE \* the read failed: gpiosMPSSE.read stores the 0 it is handed
              /\ got' = [got EXCEPT ![t] = NoReply]
              /\ UNCHANGED rxQueue
              /\ IF pc[t] = "readD"
                 THEN dbusValue' = 0 /\ UNCHANGED cbusValue
                 ELSE cbusValue' = 0 /\ UNCHANGED dbusValue
    /\ pc' = [pc EXCEPT ![t] = "idle"]
    /\ UNCHANGED <<usingI2C, usingSPI, maxFreq, connFlags, dbusDirection, devD,
                   i2cOpen, spiPort, last, wire>>
    /\ UNCHANGED outsideConc

\* gpiosMPSSE.out(n, l) on bank D by thread t.
ThreadPinOut(t, n, l) ==
    /\ CanStart(t)
    /\ dbusDirection' = outDirection(dbusDirection, n)
    /\ dbusValue' = outValue(dbusValue, n, l)
    /\ \E w \in BOOLEAN :
         IF w
         THEN /\ devD' = mpsseDBus(outDirection(dbusDirection, n),
                                   outValue(dbusValue, n, l))
              /\ wire' = Sent(t, "gpioSetD")
         ELSE UNCHANGED <<devD, wire>>
    /\ UNCHANGED <<usingI2C, usingSPI, maxFreq, connFlags, i2cOpen, spiPort,
                   last, concVarsButWire>>
    /\ UNCHANGED outsideConc

\* The byte TxPackets writes to assert chip-select, and to deassert it.
txAssertValue(flags) == IF flags.clkActiveLow THEN spiClk ELSE 0

txDeassertValueCSLow(flags) == IF flags.clkActiveLow THEN spiClk ELSE 0

txDeassertValue(flags) ==
    (IF flags.noCS THEN 0 ELSE spiCs) + (IF flags.clkActiveLow THEN spiClk ELSE 0)

\* spiMPSEEConn.TxPackets with one packet of one byte written and one byte
\* read: mpsseDBus (assert), mpsseTx (write, then read), mpsseDBus (deassert).
TxAssert(t) ==
    /\ CanStart(t)
    /\ usingSPI
    /\ \E w \in BOOLEAN :
         IF w
         THEN /\ devD' = mpsseDBus(spiMosi + spiClk + spiCs, txAssertValue(connFlags))
              /\ wire' = Sent(t, "assert")
              /\ pc' = [pc EXCEPT ![t] = "txAsserted"]
         ELSE UNCHANGED <<devD, wire, pc>>
    /\ got' = [got EXCEPT ![t] = NoReply]
    /\ UNCHANGED <<usingI2C, usingSPI, maxFreq, connFlags, dbusDirection,
                   dbusValue, i2cOpen, spiPort, last, cbusValue, rxQueue>>
    /\ UNCHANGED outsideConc

TxShiftWrite(t) ==
    /\ pc[t] = "txAsserted"
    /\ \E w \in BOOLEAN, v \in ReplyBytes :
         IF w
         THEN /\ wire' = Sent(t, "shift")
              /\ rxQueue' = Append(rxQueue, [owner |-> t, kind |-> "shift", value |-> v])
              /\ pc' = [pc EXCEPT ![t] = "txShifted"]
         ELSE /\ pc' = [pc EXCEPT ![t] = "idle"]
              /\ UNCHANGED <<wire, rxQueue>>
    /\ UNCHANGED <<handleVars, cbusValue, got>>
    /\ UNCHANGED outsideConc

TxShiftRead(t) ==
    /\ pc[t] = "txShifted"
    /\ \E r \in BOOLEAN :
         IF r
         THEN LET b == readOne(0)
              IN  /\ got' = [got EXCEPT ![t] = [b EXCEPT !.kind =
                                IF b.kind = "none" THEN "none"
                                ELSE IF b.kind = "shift" THEN "own" ELSE "other"]]
                  /\ rxQueue' = IF rxQueue = <<>> THEN rxQueue ELSE Tail(rxQueue)
                  /\ pc' = [pc EXCEPT ![t] = "txRead"]
         ELSE /\ pc' = [pc EXCEPT ![t] = "idle"]
              /\ UNCHANGED <<got, rxQueue>>
    /\ UNCHANGED <<handleVars, cbusValue, wire>>
    /\ UNCHANGED outsideConc

TxDeassert(t) ==
    /\ pc[t] = "txRead"
    /\ \E w \in BOOLEAN :
         IF w
         THEN /\ devD' = mpsseDBus(spiMosi + spiClk + spiCs, txDeassertValue(connFlags))
              /\ wire' = Sent(t, "deassert")
         ELSE UNCHANGED <<devD, wire>>
    /\ pc' = [pc EXCEPT ![t] = "idle"]
    /\ UNCHANGED <<usingI2C, usingSPI, maxFreq, connFlags, dbusDirection,
                   dbusValue, i2cOpen, spiPort, last, cbusValue, rxQueue, got>>
    /\ UNCHANGED outsideConc

\* The handle after SPI(), LimitSpeed(1MHz) and Connect(1MHz, Mode0, 8).
InitConc ==
    /\ usingI2C = FALSE
    /\ usingSPI = TRUE
    /\ maxFreq = MegaHertz
    /\ connFlags = NoFlags
    /\ dbusDirection = 0
    /\ dbusValue = 0
    /\ devD = mpsseDBus(spiMosi + spiClk + spiCs, connectValue(NoFlags))
    /\ i2cOpen = "never"
    /\ spiPort = TRUE
    /\ last = Call("Connect", "ok")
    /\ cbusValue = 0
    /\ pc = [t \in Threads |-> "idle"]
    /\ rxQueue = <<>>
    /\ wire = <<>>
    /\ got = [t \in Threads |-> NoReply]
    /\ bDevs = <<>>
    /\ bIdx = 0
    /\ bpc = [at |-> "off", attempt |-> 0, probe |-> 0]
    /\ blog = <<>>
    /\ bVer = [res |-> <<>>, at |-> 0]
    /\ bRet = NoRet
    /\ hcache = NoHCache
    /\ rcache = NoRCache
    /\ all = <<>>
    /\ bOpenRes = <<>>
    /\ initRes = NoInit
    /\ itx = NoTx
    /\ iwire = <<>>
    /\ ck = NoClock
    /\ port = NoPort
    /\ devClock = <<>>
    /\ spiCall = NoSPICall
    /\ lowest = 0
    /\ sy = NoSync
    /\ pinCall = NoPinCall
    /\ mtx = NoMpsseTx
    /\ ft = [dmask |-> 0, dvalue |-> 0]
    /\ rq = 0
    /\ rcall = NoRCall
    /\ vf = NoVerify
    /\ il = NoLines

NextConc ==
    \/ \E t \in Threads, bank \in {"D", "C"} : BankReadWrite(t, bank)
    \/ \E t \in Threads : BankReadReply(t)
    \/ \E t \in Threads, n \in Pins, l \in Levels : ThreadPinOut(t, n, l)
    \/ \E t \in Threads : TxAssert(t)
    \/ \E t \in Threads : TxShiftWrite(t)
    \/ \E t \in Threads : TxShiftRead(t)
    \/ \E t \in Threads : TxDeassert(t)

SpecConc == InitConc /\ [][NextConc]_vars

\* A thread other than the one that asserted chip-select wrote a command
\* before that thread's TxPackets was over.  A TxPackets that fails after its
\* assert ends without a deassert, so only complete frames are looked at.
Interleaved ==
    \E i, j, k \in DOMAIN wire :
        /\ i < j /\ j < k
        /\ wire[i].cmd = "assert"
        /\ wire[k].cmd = "deassert" /\ wire[k].t = wire[i].t
        /\ \A m \in (i + 1) .. (k - 1) :
              ~(wire[m].t = wire[i].t /\ wire[m].cmd \in {"assert", "deassert"})
        /\ wire[j].t # wire[i].t

\* C4: the transport traffic of one operation is never interleaved with
\* another thread's: a read returns the reply to the read command of the same
\* thread, and nothing is written by another thread between the assert and
\* the deassert of a TxPackets.
C4_TransportSerialized ==
    /\ \A t \in Threads : got[t].kind \in {"none", "own"} /\ got[t].owner \in {0, t}
    /\ ~Interleaved

----------------------------------------------------------------------------
\* driver.Init and open(i): the bring-up of every enumerated device.  A
\* position of open(i) is one helper it calls (openDev, setupCommon, reset,
\* one transport call of mpsseVerify, ...); every d2xx call can fail.

DevTypes == {"FT232H", "FT232R", "other"}

gpioSetD == 128
gpioSetC == 130
clock30MHz == 138
clockNormal == 151
clock2Phase == 141
internalLoopbackDisable == 133
bitModeReset == 0
bitModeMpsse == 2
bitModeSyncBitbang == 4
bitModeCbusBitbang == 32

\* One transport call: its name, its arguments or the bytes moved, and
\* whether it succeeded.
E(c, a, ok) == [c |-> c, a |-> a, ok |-> ok]

At(label) == [at |-> label, attempt |-> 0, probe |-> 0]

\* The calls of a fixed recipe up to and including the one that fails
\* (failAt = 0: none fails).
CallsUpTo(recipe, failAt) ==
    [k \in 1 .. (IF failAt = 0 THEN Len(recipe) ELSE failAt) |->
        E(recipe[k].c, recipe[k].a, k # failAt)]

Failed(err) == [ok |-> FALSE, kind |-> "none", err |-> err]

Opened(kind) == [ok |-> TRUE, kind |-> kind, err |-> "none"]

closeDev == <<E("Close", <<>>, TRUE)>>

\* setupCommon (README.md:244-269): the USB parameters, timeouts, event
\* characters, latency timer and flow control are set; the helper fails when
\* one of its calls does.
setupCommon(ok) == <<E("setupCommon", <<>>, ok)>>

\* reset (README.md:272-279): the device is reset and what it had queued is
\* dropped; the helper fails when one of its calls does.
reset(ok) == <<E("reset", <<>>, ok)>>

\* The label open(i) goes to once setupCommon has succeeded: the type switch
\* of driver.go:59-76.
afterCommon(t) ==
    IF t = "FT232H" THEN "forceInput" ELSE IF t = "FT232R" THEN "newFT232R" ELSE "ret"

\* driver.Init: numDevices()
BNumDevices ==
    /\ bpc.at = "numDevices"
    /\ \E ok \in BOOLEAN :
         IF ok /\ Len(bDevs) > 0
         THEN /\ bpc' = At("openDev")
              /\ initRes' = [initRes EXCEPT !.enumerated = TRUE]
         ELSE /\ bpc' = At("end")
              /\ initRes' = [done |-> TRUE, ok |-> TRUE,
                             err |-> IF ok THEN "none" ELSE "GetNumDevices",
                             enumerated |-> ok, regFailed |-> FALSE]
    /\ UNCHANGED <<bDevs, bIdx, blog, bVer, bRet, hcache, rcache, all, bOpenRes>>
    /\ UNCHANGED outsideBring

\* openDev (README.md:207-217)
BOpenDev ==
    /\ bpc.at = "openDev"
    /\ \E o \in {"ok", "failOpen", "failInfo"} :
         /\ blog' = IF o = "failOpen" THEN <<E("Open", <<bIdx>>, FALSE)>>
                    ELSE <<E("Open", <<bIdx>>, TRUE), E("GetDeviceInfo", <<>>, o = "ok")>>
         /\ IF o = "ok"
            THEN bpc' = At("setupCommon") /\ bRet' = NoRet
            ELSE /\ bpc' = At("ret")
                 /\ bRet' = Failed(IF o = "failOpen" THEN "Open" ELSE "GetDeviceInfo")
    /\ bVer' = [res |-> <<>>, at |-> 0]
    /\ hcache' = NoHCache
    /\ rcache' = NoRCache
    /\ UNCHANGED <<bDevs, bIdx, all, bOpenRes, initRes>>
    /\ UNCHANGED outsideBring

\* open (driver.go:43-55): setupCommon, and after a failure reset and
\* setupCommon once more.
BSetupCommon ==
    /\ bpc.at \in {"setupCommon", "setupCommonRetry"}
    /\ \E ok \in BOOLEAN :
         IF ok
         THEN /\ blog' = blog \o setupCommon(TRUE)
              /\ bpc' = At(afterCommon(bDevs[bIdx + 1]))
              /\ bRet' = IF afterCommon(bDevs[bIdx + 1]) = "ret"
                         THEN Opened("generic") ELSE bRet
         ELSE IF bpc.at = "setupCommon"
              THEN /\ blog' = blog \o setupCommon(FALSE)
                   /\ bpc' = At("resetOpen")
                   /\ UNCHANGED bRet
              ELSE /\ blog' = blog \o setupCommon(FALSE) \o closeDev
                   /\ bpc' = At("ret")
                   /\ bRet' = Failed("setupCommon")
    /\ UNCHANGED <<bDevs, bIdx, bVer, hcache, rcache, all, bOpenRes, initRes>>
    /\ UNCHANGED outsideBring

BResetOpen ==
    /\ bpc.at = "resetOpen"
    /\ \E ok \in BOOLEAN :
         IF ok
         THEN /\ blog' = blog \o reset(TRUE)
              /\ bpc' = At("setupCommonRetry")
              /\ UNCHANGED bRet
         ELSE /\ blog' = blog \o reset(FALSE) \o closeDev
              /\ bpc' = At("ret")
              /\ bRet' = Failed("reset")
    /\ UNCHANGED <<bDevs, bIdx, bVer, hcache, rcache, all, bOpenRes, initRes>>
    /\ UNCHANGED outsideBring

\* newFT232H (dev.go:249-251): both banks are written as all-input.  The
\* results of the two writes are dropped, so the entries record the calls
\* alone.
forceInputFrames ==
    <<E("write", <<gpioSetC, 0, 0>>, TRUE), E("write", <<gpioSetD, 0, 0>>, TRUE)>>

BForceInput ==
    /\ bpc.at = "forceInput"
    /\ blog' = blog \o forceInputFrames
    /\ bpc' = At("readBanks")
    /\ UNCHANGED <<bDevs, bIdx, bVer, bRet, hcache, rcache, all, bOpenRes, initRes>>
    /\ UNCHANGED outsideBring

\* gpiosMPSSE.read over mpsseCBusRead / mpsseDBusRead: the opcode is written,
\* one byte is read into the buffer that held the opcode.  A failed call
\* yields 0, a read of no byte leaves the opcode in the buffer.
\* The byte a bank read gets when one arrives.
BankBytes == {85}

BankReadOutcomes == {"failWrite", "nothing", "byte"}

bankReadCalls(opcode, o, v) ==
    CASE o = "failWrite" -> <<E("write", <<opcode>>, FALSE)>>
      [] o = "nothing" -> <<E("write", <<opcode>>, TRUE), E("read", <<0>>, TRUE)>>
      [] o = "byte" -> <<E("write", <<opcode>>, TRUE), E("read", <<1, v>>, TRUE)>>

bankReadValue(opcode, o, v) ==
    CASE o = "byte" -> v
      [] o = "nothing" -> opcode
      [] OTHER -> 0

\* newFT232H (dev.go:252-253): f.cbus.read(), f.dbus.read(); errors dropped.
BReadBanks ==
    /\ bpc.at = "readBanks"
    /\ \E oc, od \in BankReadOutcomes, vc, vd \in BankBytes :
         /\ blog' = blog \o bankReadCalls(gpioReadC, oc, vc)
                         \o bankReadCalls(gpioReadD, od, vd)
         /\ hcache' = [hcache EXCEPT !.cval = bankReadValue(gpioReadC, oc, vc),
                                     !.dval = bankReadValue(gpioReadD, od, vd)]
    /\ bpc' = [at |-> "verifyWrite", attempt |-> 1, probe |-> 1]
    /\ UNCHANGED <<bDevs, bIdx, bVer, bRet, rcache, all, bOpenRes, initRes>>
    /\ UNCHANGED outsideBring

\* mpsseVerify (i2c.go:502-532): the probe bytes and the echo expected.
probeByte(k) == IF k = 1 THEN 170 ELSE 171

badCommand == 250

\* What follows a failed mpsseVerify in setupMPSSE (i2c.go:458-479): after
\* the first one the device is reset, after the second one setupMPSSE fails.
afterVerifyFailedNoRetry(attempt) == "ret"

afterVerifyFailed(attempt) == IF attempt = 1 THEN "mpsseReset" ELSE "ret"

VerifyFails(log) ==
    /\ bVer' = [bVer EXCEPT !.res = Append(bVer.res, "fail")]
    /\ IF afterVerifyFailed(bpc.attempt) = "ret"
       THEN /\ blog' = log \o closeDev
            /\ bpc' = At("ret")
            /\ bRet' = Failed("mpsseVerify")
       ELSE /\ blog' = log
            /\ bpc' = At(afterVerifyFailed(bpc.attempt))
            /\ UNCHANGED bRet

\* mpsseVerify: write one probe byte.
BVerifyWrite ==
    /\ bpc.at = "verifyWrite"
    /\ \E w \in BOOLEAN :
         LET log == Append(blog, E("write", <<probeByte(bpc.probe)>>, w))
         IN  IF w
             THEN /\ blog' = log
                  /\ bpc' = [bpc EXCEPT !.at = "verifyPoll"]
                  /\ UNCHANGED <<bVer, bRet>>
             ELSE VerifyFails(log)
    /\ UNCHANGED <<bDevs, bIdx, hcache, rcache, all, bOpenRes, initRes>>
    /\ UNCHANGED outsideBring

\* How the polling of mpsseVerify for the echo of one probe ends (the reads
\* that returned no byte before the last one are not recorded): a read
\* error, no byte when the 200 ms are over, two bytes that are not the echo,
\* or the echo.
PollOutcomes == {"err", "timeout", "twoBad", "twoGood"}

pollCall(o, probe) ==
    CASE o = "err" -> E("read", <<0>>, FALSE)
      [] o = "timeout" -> E("read", <<0>>, TRUE)
      [] o = "twoBad" -> E("read", <<2, badCommand, 0>>, TRUE)
      [] o = "twoGood" -> E("read", <<2, badCommand, probe>>, TRUE)

\* The buffer b after the last read; it starts as <<0, 0>> for every probe.
pollBuffer(o, probe) ==
    CASE o = "twoBad" -> <<badCommand, 0>>
      [] o = "twoGood" -> <<badCommand, probe>>
      [] OTHER -> <<0, 0>>

\* mpsseVerify: the polling for the echo of the probe.
BVerifyPoll ==
    /\ bpc.at = "verifyPoll"
    /\ \E o \in PollOutcomes :
         LET log == Append(blog, pollCall(o, probeByte(bpc.probe)))
             b == pollBuffer(o, probeByte(bpc.probe))
         IN  IF o \in {"err", "timeout"} THEN VerifyFails(log)
             ELSE IF b[1] # badCommand \/ b[2] # probeByte(bpc.probe)
             THEN VerifyFails(log)
             ELSE IF bpc.probe = 1
             THEN /\ blog' = log
                  /\ bpc' = [bpc EXCEPT !.at = "verifyWrite", !.probe = 2]
                  /\ UNCHANGED <<bVer, bRet>>
             ELSE /\ blog' = log
                  /\ bVer' = [res |-> Append(bVer.res, "ok"), at |-> Len(log)]
                  /\ bpc' = At("mpsseInit")
                  /\ UNCHANGED bRet
    /\ UNCHANGED <<bDevs, bIdx, hcache, rcache, all, bOpenRes, initRes>>
    /\ UNCHANGED outsideBring

\* setupMPSSE (i2c.go:465-467): reset()
BMpsseReset ==
    /\ bpc.at = "mpsseReset"
    /\ \E ok \in BOOLEAN :
         IF ok
         THEN /\ blog' = blog \o reset(TRUE)
              /\ bpc' = At("mpsseCommon")
              /\ UNCHANGED bRet
         ELSE /\ blog' = blog \o reset(FALSE) \o closeDev
              /\ bpc' = At("ret")
              /\ bRet' = Failed("reset")
    /\ UNCHANGED <<bDevs, bIdx, bVer, hcache, rcache, all, bOpenRes, initRes>>
    /\ UNCHANGED outsideBring

\* setupMPSSE (i2c.go:468-470): setupCommon()
BMpsseCommon ==
    /\ bpc.at = "mpsseCommon"
    /\ \E ok \in BOOLEAN :
         IF ok
         THEN /\ blog' = blog \o setupCommon(TRUE)
              /\ bpc' = At("mpsseBitMode")
              /\ UNCHANGED bRet
         ELSE /\ blog' = blog \o setupCommon(FALSE) \o closeDev
              /\ bpc' = At("ret")
              /\ bRet' = Failed("setupCommon")
    /\ UNCHANGED <<bDevs, bIdx, bVer, hcache, rcache, all, bOpenRes, initRes>>
    /\ UNCHANGED outsideBring

\* setupMPSSE (i2c.go:471-476): the bit mode is reset, then set to MPSSE.
enterMpsse ==
    <<E("SetBitMode", <<0, bitModeReset>>, TRUE), E("SetBitMode", <<0, bitModeMpsse>>, TRUE)>>

BMpsseBitMode ==
    /\ bpc.at = "mpsseBitMode"
    /\ \E failAt \in 0 .. Len(enterMpsse) :
         IF failAt = 0
         THEN /\ blog' = blog \o enterMpsse
              /\ bpc' = [at |-> "verifyWrite", attempt |-> 2, probe |-> 1]
              /\ UNCHANGED bRet
         ELSE /\ blog' = blog \o CallsUpTo(enterMpsse, failAt) \o closeDev
              /\ bpc' = At("ret")
              /\ bRet' = Failed("SetBitMode")
    /\ UNCHANGED <<bDevs, bIdx, bVer, hcache, rcache, all, bOpenRes, initRes>>
    /\ UNCHANGED outsideBring

\* setupMPSSE (i2c.go:486-495): the engine is put in a known state.
mpsseInitCmd ==
    <<clock30MHz, clockNormal, clock2Phase, internalLoopbackDisable,
      gpioSetC, 0, 0, gpioSetD, 0, 0>>

BMpsseInit ==
    /\ bpc.at = "mpsseInit"
    /\ \E w \in BOOLEAN :
         IF w
         THEN /\ blog' = Append(blog, E("write", mpsseInitCmd, TRUE))
              /\ bRet' = Opened("FT232H")
         ELSE /\ blog' = Append(blog, E("write", mpsseInitCmd, FALSE)) \o closeDev
              /\ bRet' = Failed("Write")
    /\ bpc' = At("ret")
    /\ UNCHANGED <<bDevs, bIdx, bVer, hcache, rcache, all, bOpenRes, initRes>>
    /\ UNCHANGED outsideBring

\* newFT232R (dev.go:465-493): default baud rate, CBus bit-bang all input and
\* its state read, synchronous bit-bang all input and its state read.  n is
\* the number of bytes the last read returns.
newFT232RCallsReadTwice(vc, n, vd) ==
    <<E("SetBaudRate", <<3000000>>, TRUE),
      E("SetBitMode", <<0, bitModeCbusBitbang>>, TRUE),
      E("GetBitMode", <<vc>>, TRUE),
      E("SetBitMode", <<0, bitModeSyncBitbang>>, TRUE),
      E("read", IF n = 0 THEN <<0>> ELSE <<1, vd>>, TRUE),
      E("read", IF n = 0 THEN <<0>> ELSE <<1, vd>>, TRUE)>>

newFT232RCalls(vc, n, vd) ==
    <<E("SetBaudRate", <<3000000>>, TRUE),
      E("SetBitMode", <<0, bitModeCbusBitbang>>, TRUE),
      E("GetBitMode", <<vc>>, TRUE),
      E("SetBitMode", <<0, bitModeSyncBitbang>>, TRUE),
      E("read", IF n = 0 THEN <<0>> ELSE <<1, vd>>, TRUE)>>

BNewFT232R ==
    /\ bpc.at = "newFT232R"
    /\ \E vc, vd \in BankBytes, n \in {0, 1} :
       \E failAt \in 0 .. Len(newFT232RCalls(vc, n, vd)) :
         LET calls == newFT232RCalls(vc, n, vd)
         IN  IF failAt = 0
             THEN /\ blog' = blog \o calls
                  /\ rcache' = [cbusnibble |-> vc, dvalue |-> IF n = 0 THEN 0 ELSE vd,
                                dmask |-> 0]
                  /\ bRet' = Opened("FT232R")
             ELSE /\ blog' = blog \o CallsUpTo(calls, failAt) \o closeDev
                  /\ rcache' = [cbusnibble |-> IF failAt > 3 THEN vc ELSE 0,
                                dvalue |-> 0, dmask |-> 0]
                  /\ bRet' = Failed(calls[failAt].c)
    /\ bpc' = At("ret")
    /\ UNCHANGED <<bDevs, bIdx, bVer, hcache, all, bOpenRes, initRes>>
    /\ UNCHANGED outsideBring

\* The loop body of driver.Init (part_020:132-149) once open(i) has returned:
\* an opened device is appended and registered, a failed one is appended as
\* a broken placeholder; a failed registration ends Init.
initAppendNoErr(ret, i) ==
    [kind |-> IF ret.ok THEN ret.kind ELSE "broken", index |-> i, err |-> "none"]

initAppend(ret, i) ==
    IF ret.ok THEN [kind |-> ret.kind, index |-> i, err |-> "none"]
    ELSE [kind |-> "broken", index |-> i, err |-> ret.err]

BInitLoop ==
    /\ bpc.at = "ret"
    /\ bOpenRes' = Append(bOpenRes, bRet)
    /\ all' = Append(all, initAppend(bRet, bIdx))
    /\ \E reg \in BOOLEAN :
         IF bRet.ok /\ ~reg
         THEN /\ initRes' = [done |-> TRUE, ok |-> TRUE, err |-> "register",
                             enumerated |-> TRUE, regFailed |-> TRUE]
              /\ bpc' = At("end")
              /\ UNCHANGED bIdx
         ELSE /\ initRes' = [done |-> bIdx + 1 >= Len(bDevs), ok |-> bIdx + 1 >= Len(bDevs),
                             err |-> IF bRet.ok THEN initRes.err ELSE bRet.err,
                             enumerated |-> TRUE, regFailed |-> FALSE]
              /\ bpc' = At(IF bIdx + 1 >= Len(bDevs) THEN "end" ELSE "openDev")
              /\ bIdx' = IF bIdx + 1 >= Len(bDevs) THEN bIdx ELSE bIdx + 1
    /\ UNCHANGED <<bDevs, blog, bVer, bRet, hcache, rcache>>
    /\ UNCHANGED outsideBring

DevLists == UNION {[1 .. n -> DevTypes] : n \in 0 .. MaxDevices}

InitBring ==
    /\ usingI2C = FALSE
    /\ usingSPI = FALSE
    /\ maxFreq = 0
    /\ connFlags = NoFlags
    /\ dbusDirection = 0
    /\ dbusValue = 0
    /\ devD = <<0, 0>>
    /\ i2cOpen = "never"
    /\ spiPort = FALSE
    /\ last = Call("open", "ok")
    /\ cbusValue = 0
    /\ pc = <<>>
    /\ rxQueue = <<>>
    /\ wire = <<>>
    /\ got = <<>>
    /\ bDevs \in DevLists
    /\ bIdx = 0
    /\ bpc = At("numDevices")
    /\ blog = <<>>
    /\ bVer = [res |-> <<>>, at |-> 0]
    /\ bRet = NoRet
    /\ hcache = NoHCache
    /\ rcache = NoRCache
    /\ all = <<>>
    /\ bOpenRes = <<>>
    /\ initRes = NoInit
    /\ itx = NoTx
    /\ iwire = <<>>
    /\ ck = NoClock
    /\ port = NoPort
    /\ devClock = <<>>
    /\ spiCall = NoSPICall
    /\ lowest = 0
    /\ sy = NoSync
    /\ pinCall = NoPinCall
    /\ mtx = NoMpsseTx
    /\ ft = [dmask |-> 0, dvalue |-> 0]
    /\ rq = 0
    /\ rcall = NoRCall
    /\ vf = NoVerify
    /\ il = NoLines

NextBring ==
    \/ BNumDevices
    \/ BOpenDev
    \/ BSetupCommon
    \/ BResetOpen
    \/ BForceInput
    \/ BReadBanks
    \/ BVerifyWrite
    \/ BVerifyPoll
    \/ BMpsseReset
    \/ BMpsseCommon
    \/ BMpsseBitMode
    \/ BMpsseInit
    \/ BNewFT232R
    \/ BInitLoop

SpecBring == InitBring /\ [][NextBring]_vars

\* ---- Claims about the bring-up ----

\* The verification attempts of the device being opened: each one starts
\* with the write of the first probe byte.
ProbeWrites ==
    {k \in 1 .. Len(blog) : blog[k].c = "write" /\ blog[k].a = <<probeByte(1)>>}

\* The resets issued after the verification attempt that started at p.
ResetsAfter(p) == {k \in p + 1 .. Len(blog) : blog[k].c = "reset"}

\* The engine-initialisation command was written.
InitWritten ==
    \E k \in 1 .. Len(blog) :
        blog[k].c = "write" /\ blog[k].a = mpsseInitCmd /\ blog[k].ok

\* The retry cycle that starts with the reset at k, once it has run to its
\* verification at j: reset, common configuration, switch to engine mode,
\* then the probe.
RetryCycleInOrder(k, j) ==
    /\ j = k + 4
    /\ SubSeq(blog, k, k + 3) = reset(TRUE) \o setupCommon(TRUE) \o enterMpsse

C5_AtMostOneRetry ==
    LET pw == ProbeWrites
    IN  pw # {} =>
          LET first == CHOOSE p \in pw : \A q \in pw : p <= q
              rr == ResetsAfter(first)
          IN  /\ Cardinality(pw) <= 2
              /\ Cardinality(rr) <= 1
              /\ \A k \in rr : \A j \in pw : j > k => RetryCycleInOrder(k, j)
              /\ (bVer.res # <<>> /\ bVer.res[1] = "ok") => (rr = {} /\ Cardinality(pw) = 1)
              /\ (bVer.res # <<>> /\ bVer.res[1] = "fail" /\ bpc.at # "mpsseReset") =>
                     Cardinality(rr) = 1
              /\ (bpc.at = "ret" /\ bVer.res = <<"fail", "fail">>) =>
                     (~bRet.ok /\ bRet.err = "mpsseVerify")

IsAllInput(e, setOp) ==
    /\ e.c = "write"
    /\ \/ e.a = <<setOp, 0, 0>>
       \/ e.a = mpsseInitCmd

IsBankRead(e, readOp) == e.c = "write" /\ e.a = <<readOp>>

\* The cached value of a bank is the byte of a bank read issued after the
\* last all-input command of that bank.
ReadAfterLastAllInput(setOp, readOp, cached) ==
    \E k \in 1 .. Len(blog) - 1 :
        /\ IsBankRead(blog[k], readOp)
        /\ \A j \in k .. Len(blog) : ~IsAllInput(blog[j], setOp)
        /\ blog[k + 1].c = "read"
        /\ blog[k + 1].ok
        /\ blog[k + 1].a = <<1, cached>>

\* C6: the all-input commands and the bank reads of the FT232H bring-up are
\* issued only after the engine verification has succeeded; when the
\* bring-up succeeds both cached directions are 0 and each cached value is
\* the byte of a bank read issued after the last all-input command of its
\* bank.
C6_ResyncAfterVerify ==
    /\ \A k \in 1 .. Len(blog) :
           (\/ IsAllInput(blog[k], gpioSetC) \/ IsAllInput(blog[k], gpioSetD)
            \/ IsBankRead(blog[k], gpioReadC) \/ IsBankRead(blog[k], gpioReadD))
           => (bVer.at > 0 /\ bVer.at < k)
    /\ (bpc.at = "ret" /\ bRet.ok /\ bRet.kind = "FT232H") =>
           /\ hcache.cdir = 0
           /\ hcache.ddir = 0
           /\ ReadAfterLastAllInput(gpioSetC, gpioReadC, hcache.cval)
           /\ ReadAfterLastAllInput(gpioSetD, gpioReadD, hcache.dval)

\* The device type Init lists for an opened device.
kindOf(t) == IF t = "other" THEN "generic" ELSE t

\* C7: provided the enumeration and every registration succeed, Init over N
\* devices leaves N entries in All(), entry i with index i: the opened
\* device when open(i) succeeded, else a broken placeholder with the error
\* of open(i); every device is opened whatever happened to the ones before.
C7_EveryDeviceListed ==
    (initRes.done /\ initRes.enumerated /\ ~initRes.regFailed) =>
        /\ Len(all) = Len(bDevs)
        /\ Len(bOpenRes) = Len(bDevs)
        /\ \A i \in 1 .. Len(all) :
               /\ all[i].index = i - 1
               /\ IF bOpenRes[i].ok
                  THEN all[i].kind = kindOf(bDevs[i]) /\ all[i].err = "none"
                  ELSE /\ all[i].kind = "broken"
                       /\ all[i].err = bOpenRes[i].err
                       /\ all[i].err # "none"

C7_Witness ==
    /\ initRes.done
    /\ initRes.enumerated
    /\ ~initRes.regFailed
    /\ Len(bDevs) = 2
    /\ Len(all) = 2
    /\ all[1].kind = "broken"
    /\ all[2].kind = "FT232H"

\* A single FT232R is enumerated and every transport call of Init succeeded.
SingleFT232RAllCallsOk ==
    /\ initRes.done
    /\ initRes.enumerated
    /\ bDevs = <<"FT232R">>
    /\ \A k \in 1 .. Len(blog) : blog[k].ok

\* Init returned (true, nil) with the FT232R in All(); after the open and
\* the common configuration the transport saw: the baud rate, CBus bit-bang
\* all input, one read of the CBus state, synchronous bit-bang all input,
\* one read of the D-bus; no byte was written.
FT232RBroughtUp ==
    /\ initRes.ok
    /\ initRes.err = "none"
    /\ Len(all) = 1
    /\ all[1].kind = "FT232R"
    /\ all[1].index = 0
    /\ \A k \in 1 .. Len(blog) : blog[k].c # "write"
    /\ Len(blog) = 8
    /\ blog[4] = E("SetBaudRate", <<3000000>>, TRUE)
    /\ blog[5] = E("SetBitMode", <<0, bitModeCbusBitbang>>, TRUE)
    /\ blog[6].c = "GetBitMode"
    /\ rcache.cbusnibble = blog[6].a[1]
    /\ blog[7] = E("SetBitMode", <<0, bitModeSyncBitbang>>, TRUE)
    /\ blog[8].c = "read"
    /\ rcache.dvalue = (IF blog[8].a[1] = 1 THEN blog[8].a[2] ELSE 0)

-----------------------------------------------------------------------------
\* i2cBus.Tx: one transaction on an open I2C bus, one transport round trip
\* per step.

I2CAddrs == {80, 336}

I2CData == {85, 170}

\* What the device hands back for the sampled acknowledgement bit.
AckBytes == {0, 1}

WriteBufs == UNION {[1 .. n -> I2CData] : n \in 0 .. MaxWriteLen}

Ev(op, b, ack) == [op |-> op, b |-> b, ack |-> ack]

Returned(ret) == [itx EXCEPT !.at = "done", !.ret = ret]

\* Tx (i2c.go:63-89) up to its first byte: the lock is taken and the start
\* condition is written.
ITxBegin ==
    /\ itx.at \in {"idle", "done"}
    /\ usingI2C
    /\ \E addr \in I2CAddrs, w \in WriteBufs, nr \in 0 .. MaxReadLen, ok \in BOOLEAN :
         LET tx == [at |-> "addr", addr |-> addr, w |-> w, nr |-> nr, i |-> 1,
                    ret |-> "none", r |-> [k \in 1 .. nr |-> 0]]
         IN  IF ok
             THEN itx' = tx /\ iwire' = <<Ev("start", 0, 0)>>
             ELSE itx' = [tx EXCEPT !.at = "done", !.ret = "errIO"] /\ iwire' = <<>>
    /\ UNCHANGED outsideI2C

\* The bytes of the writeBytes call Tx is in: the address byte, then w.
writeBytesArgShifted(tx) == IF tx.at = "addr" THEN <<(2 * tx.addr) % 256>> ELSE tx.w

writeBytesArg(tx) == IF tx.at = "addr" THEN <<tx.addr % 256>> ELSE tx.w

\* Where Tx goes once a writeBytes or readBytes call has returned nil.
afterAddrSkipW(tx) == IF tx.nr # 0 THEN "r" ELSE "stop"

afterAddr(tx) == IF Len(tx.w) # 0 THEN "w" ELSE IF tx.nr # 0 THEN "r" ELSE "stop"

afterWrite(tx) == IF tx.nr # 0 THEN "r" ELSE "stop"

\* writeBytes (i2c.go:247-249): the test made on the byte that holds the
\* sampled acknowledgement bit.
gotNAK(r0) == r0 % 2 = 0

\* One iteration of the loop of writeBytes (i2c.go:219-252), with the
\* flushPending before the first one: the byte is clocked out, the
\* acknowledgement bit is read back and tested.
WriteOutcomes == {"flushErr", "writeErr", "readErr", "read"}

ITxWriteByte ==
    /\ itx.at \in {"addr", "w"}
    /\ \E o \in WriteOutcomes, r0 \in AckBytes :
         LET w == writeBytesArg(itx)
             sent == Append(iwire, Ev("out", w[itx.i], IF o = "read" THEN r0 ELSE 2))
         IN  /\ o = "flushErr" => itx.i = 1
             /\ o # "read" => r0 = 0
             /\ CASE o \in {"flushErr", "writeErr"} ->
                       itx' = Returned("errIO") /\ UNCHANGED iwire
                  [] o = "readErr" ->
                       itx' = Returned("errIO") /\ iwire' = sent
                  [] o = "read" /\ gotNAK(r0) ->
                       itx' = Returned("NAK") /\ iwire' = sent
                  [] OTHER ->
                       /\ iwire' = sent
                       /\ itx' = IF itx.i < Len(w)
                                 THEN [itx EXCEPT !.i = itx.i + 1]
                                 ELSE [itx EXCEPT !.i = 1,
                                           !.at = IF itx.at = "addr" THEN afterAddr(itx)
                                                  ELSE afterWrite(itx)]
    /\ UNCHANGED outsideI2C

\* readBytes (i2c.go:265-274): the acknowledgement the engine drives after
\* the i-th byte (i counted from 1): 0x80 after the last one.
readAckByteAlwaysNAK(i, n) == 128

readAckByte(i, n) == IF i = n THEN 128 ELSE 0

\* readBytes (i2c.go:279): the slice r[i:1] handed to readAll, i counted
\* from 0: one byte, no byte, or a slice-bounds panic.
readSlice(i) == IF i = 0 THEN "one" ELSE IF i = 1 THEN "empty" ELSE "panic"

\* One iteration of the loop of readBytes (i2c.go:257-287).
ReadOutcomes == {"writeErr", "readErr", "read"}

ITxReadByte ==
    /\ itx.at = "r"
    /\ \E o \in ReadOutcomes, b \in I2CData :
         LET ack == readAckByte(itx.i, itx.nr)
             slice == readSlice(itx.i - 1)
         IN  /\ o # "read" => b = 85
             /\ IF o = "writeErr"
                THEN itx' = Returned("errIO") /\ UNCHANGED iwire
                ELSE IF slice = "panic"
                THEN /\ o = "read" /\ b = 85
                     /\ itx' = Returned("panic")
                     /\ iwire' = Append(iwire, Ev("in", 256, ack))
                ELSE IF o = "readErr"
                THEN /\ itx' = Returned("errIO")
                     /\ iwire' = Append(iwire, Ev("in", 256, ack))
                ELSE /\ slice = "empty" => b = 85
                     /\ iwire' = Append(iwire, Ev("in", IF slice = "one" THEN b ELSE 256, ack))
                     /\ itx' = [itx EXCEPT
                                  !.r = IF slice = "one" THEN [itx.r EXCEPT ![1] = b] ELSE itx.r,
                                  !.i = IF itx.i < itx.nr THEN itx.i + 1 ELSE 1,
                                  !.at = IF itx.i < itx.nr THEN "r" ELSE "stop"]
    /\ UNCHANGED outsideI2C

\* Tx (i2c.go:85-87): setI2CStop()
ITxStop ==
    /\ itx.at = "stop"
    /\ \E ok \in BOOLEAN :
         IF ok
         THEN itx' = [itx EXCEPT !.at = "lines"] /\ iwire' = Append(iwire, Ev("stop", 0, 0))
         ELSE itx' = Returned("errIO") /\ UNCHANGED iwire
    /\ UNCHANGED outsideI2C

\* Tx (i2c.go:88): setI2CLinesIdle(); the caches are updated before the
\* frame is written.
ITxLinesIdle ==
    /\ itx.at = "lines"
    /\ dbusDirection' = setI2CLinesIdleDirection(dbusDirection)
    /\ dbusValue' = setI2CLinesIdleValue(dbusValue)
    /\ \E ok \in BOOLEAN :
         IF ok
         THEN /\ itx' = Returned("ok")
              /\ iwire' = Append(iwire, Ev("idle", 0, 0))
              /\ devD' = setI2CLinesIdleFrame(dbusDirection, dbusValue)
         ELSE /\ itx' = Returned("errIO")
              /\ UNCHANGED <<iwire, devD>>
    /\ UNCHANGED <<usingI2C, usingSPI, maxFreq, connFlags, i2cOpen, spiPort, last>>
    /\ UNCHANGED <<concVars, bringVars, clockVars, spiVars, syncVars, pinVars, txVars, rVars, vVars, lVars>>

\* The handle right after FT232H.I2C() returned a bus.
InitI2C ==
    /\ usingI2C = TRUE
    /\ usingSPI = FALSE
    /\ maxFreq = 0
    /\ connFlags = NoFlags
    /\ dbusDirection = setI2CLinesIdleDirection(0)
    /\ dbusValue = setI2CLinesIdleValue(0)
    /\ devD = setI2CLinesIdleFrame(0, 0)
    /\ i2cOpen = "open"
    /\ spiPort = FALSE
    /\ last = Call("I2C", "ok")
    /\ cbusValue = 0
    /\ pc = <<>>
    /\ rxQueue = <<>>
    /\ wire = <<>>
    /\ got = <<>>
    /\ bDevs = <<>>
    /\ bIdx = 0
    /\ bpc = [at |-> "off", attempt |-> 0, probe |-> 0]
    /\ blog = <<>>
    /\ bVer = [res |-> <<>>, at |-> 0]
    /\ bRet = NoRet
    /\ hcache = NoHCache
    /\ rcache = NoRCache
    /\ all = <<>>
    /\ bOpenRes = <<>>
    /\ initRes = NoInit
    /\ itx = NoTx
    /\ iwire = <<>>
    /\ ck = NoClock
    /\ port = NoPort
    /\ devClock = <<>>
    /\ spiCall = NoSPICall
    /\ lowest = 0
    /\ sy = NoSync
    /\ pinCall = NoPinCall
    /\ mtx = NoMpsseTx
    /\ ft = [dmask |-> 0, dvalue |-> 0]
    /\ rq = 0
    /\ rcall = NoRCall
    /\ vf = NoVerify
    /\ il = NoLines

NextI2C ==
    \/ ITxBegin
    \/ ITxWriteByte
    \/ ITxReadByte
    \/ ITxStop
    \/ ITxLinesIdle

SpecI2C == InitI2C /\ [][NextI2C]_vars

\* The written bytes whose acknowledgement bit was sampled, by position on
\* the bus.
Sampled == {k \in 1 .. Len(iwire) : iwire[k].op = "out" /\ iwire[k].ack \in {0, 1}}

\* C9: the acknowledgement bit sampled after a written byte decides: 0 is an
\* ACK and the transaction goes on, 1 is a NAK and the transaction fails
\* with the NAK error.
C9_AckBitDecides ==
    \A k \in Sampled :
        /\ iwire[k].ack = 0 => ~(k = Len(iwire) /\ itx.ret = "NAK")
        /\ iwire[k].ack = 1 => (k = Len(iwire) /\ itx.ret = "NAK")

\* C10: once the peer has NAKed a written byte (acknowledgement bit 1), no
\* byte is clocked out or in after it and Tx returns the NAK error.
C10_NothingAfterNAK ==
    \A k \in Sampled :
        iwire[k].ack = 1 =>
            /\ \A j \in k + 1 .. Len(iwire) : iwire[j].op \notin {"out", "in"}
            /\ itx.at = "done"
            /\ itx.ret = "NAK"

\* What a transaction with address a, write buffer w and n bytes to read
\* puts on the bus when nothing is left out or added: the operations and,
\* for the written bytes, their values.
TxOps(a, w, n) ==
    <<"start", "out">> \o [k \in 1 .. Len(w) |-> "out"] \o [k \in 1 .. n |-> "in"]
    \o <<"stop", "idle">>

\* C11: an I2C Tx that returned success emitted the start condition, the
\* address byte, every byte of w in order, one byte read per element of r,
\* the stop condition and the idle frame, in that order and nothing else;
\* the last frame the device got drives SCL and SDA high.
C11_TxSequence ==
    (itx.at = "done" /\ itx.ret = "ok") =>
        /\ [k \in 1 .. Len(iwire) |-> iwire[k].op] = TxOps(itx.addr, itx.w, itx.nr)
        /\ iwire[2].b = itx.addr % 256
        /\ \A k \in 1 .. Len(itx.w) : iwire[2 + k].b = itx.w[k]
        /\ Bit(devD[1], 0) = 1
        /\ Bit(devD[1], 1) = 1
        /\ Bit(devD[2], 0) = 1
        /\ Bit(devD[2], 1) = 1

C11_Witness ==
    /\ itx.at = "done"
    /\ itx.ret = "ok"
    /\ Len(itx.w) = 2
    /\ itx.w[1] # itx.w[2]
    /\ itx.nr = 2
    /\ Len(iwire) = 8

IsIn(e) == e.op = "in"

\* The bytes clocked in so far, oldest first.
InEvents == SelectSeq(iwire, IsIn)

C13_NoPartialRead ==
    (itx.at = "done" /\ itx.ret = "ok") =>
        \A k \in 1 .. itx.nr :
            \E j \in 1 .. Len(InEvents) : InEvents[j].b \in I2CData /\ itx.r[k] = InEvents[j].b

----------------------------------------------------------------------------
\* device.mpsseClock called with one target (i2c.go:548-563).

clock6MHz == 139

clockSetDivisor == 134

\* The targets a caller passes: below the lowest rate of the slow base, the
\* edges of the range, I2C and SPI rates, and one above the fast base.
ClockTargets ==
    {50 * Hertz, 92 * Hertz, 100 * Hertz, KiloHertz, 100 * KiloHertz,
     400 * KiloHertz, 40 * MegaHertz}
    \cup {k * MegaHertz : k \in 1..30}

\* byte(x) of a Go int.
byte(x) == x % 256

\* b, the command mpsseClock writes for f.
mpsseClockBytes(f) ==
    LET c == mpsseClock(f)
    IN  <<IF c.base = clockBase THEN clock30MHz ELSE clock6MHz,
          clockSetDivisor, byte(c.div - 1), byte((c.div - 1) \div 256)>>

\* base / div, the rate mpsseClock returns for f.
mpsseClockRate(f) ==
    LET c == mpsseClock(f) IN c.base \div c.div

\* What one call of mpsseClock(f) does when its write returns ok or fails:
\* nothing is written when the frequency is too low; with a zero divisor the
\* command is written and the return statement divides by zero.
mpsseClockCall(f, ok) ==
    LET c == mpsseClock(f)
    IN  IF c.err = "tooLow"
        THEN [err |-> "tooLow", rate |-> 0, bytes |-> <<>>]
        ELSE IF c.div = 0
        THEN [err |-> "panic", rate |-> 0, bytes |-> mpsseClockBytes(f)]
        ELSE [err |-> IF ok THEN "none" ELSE "write",
              rate |-> mpsseClockRate(f), bytes |-> mpsseClockBytes(f)]

CkBegin ==
    /\ ck = NoClock
    /\ \E f \in ClockTargets: ck' = [f |-> f, calls |-> <<>>]
    /\ UNCHANGED outsideClock

CkCall ==
    /\ ck.f # 0
    /\ Len(ck.calls) < MaxClockCalls
    /\ \A k \in 1..Len(ck.calls): ck.calls[k].err # "panic"
    /\ \E ok \in BOOLEAN:
         ck' = [ck EXCEPT !.calls = Append(@, mpsseClockCall(ck.f, ok))]
    /\ UNCHANGED outsideClock

\* The handle as newFT232H left it; no call of mpsseClock made yet.
InitClock == Init

NextClock == CkBegin \/ CkCall

SpecClock == InitClock /\ [][NextClock]_vars

\* C14: for a target mpsseClock accepts, every call returns a rate that does
\* not exceed the target, and two calls with the same target return the same
\* rate and write the same command.
C14_ClockNotAboveTarget ==
    \A k \in 1..Len(ck.calls):
        ck.calls[k].err \in {"none", "write"} =>
            /\ ck.calls[k].rate <= ck.f
            /\ \A j \in 1..Len(ck.calls):
                   /\ ck.calls[j].rate = ck.calls[k].rate
                   /\ ck.calls[j].bytes = ck.calls[k].bytes

----------------------------------------------------------------------------
\* The SPI port of one FT232H and its connection, used by one caller
\* (spi.go:34-244).  The model starts when FT232H.SPI() has returned the port.

\* The packets of one TxPackets call.
MaxPkts == 2

dataOutFall == 1

dataInFall == 4

dataLSBF == 8

dataOut == 16

dataIn == 32

\* Modes passed to Connect: the four clock modes, NoCS, LSBFirst, HalfDuplex
\* and a value outside the known modes.
SPIModes == {0, 1, 2, 3, spiNoCS, 3 + spiLSBFirst, spiHalfDuplex, 32}

\* spi.Packet; R is the length of the read buffer.
Pkt(w, nr, keep, bits) ==
    [W |-> w, R |-> nr, KeepCS |-> keep, BitsPerWord |-> bits]

Packets ==
    {Pkt(<<>>, 0, FALSE, 0), Pkt(<<85>>, 0, FALSE, 8),
     Pkt(<<85, 170>>, 2, FALSE, 0), Pkt(<<85>>, 2, FALSE, 8),
     Pkt(<<85>>, 0, TRUE, 8), Pkt(<<85>>, 1, FALSE, 16),
     Pkt(<<85>>, 1, FALSE, 12)}

PacketLists == UNION {[1..n -> Packets] : n \in 1..MaxPkts}

\* device.mpsseDBus(mask, value): the command written (i2c.go:666-670).
mpsseDBusFrame(mask, value) == <<gpioSetD, value, mask>>

\* The lower of a and b, where 0 stands for no frequency yet.
lowerOf(a, b) == IF a = 0 \/ b < a THEN b ELSE a

\* The state a call of the port leaves: what it returned, the commands it
\* wrote, s.maxFreq, f.usingSPI and the flags of the connection.  The device
\* keeps the last clock command it got.
PortCall(op, f, m, res, w, mf, using, flags) ==
    /\ port' = [maxFreq |-> mf, c |-> flags, usingSPI |-> using]
    /\ spiCall' = [op |-> op, f |-> f, m |-> m, pkts |-> <<>>, res |-> res,
                   wire |-> w]
    /\ devClock' = IF w # <<>> /\ w[1][2] = clockSetDivisor THEN w[1]
                   ELSE devClock
    /\ lowest' = IF res = "ok" THEN lowerOf(lowest, clampFreq(f)) ELSE lowest

\* spiMPSEEPort.Connect(f, m, bits).  w1 is the outcome of the write made by
\* mpsseClock, w2 of the one made by mpsseDBus.
SConnect(f, m, bits) ==
    LET chk == connectArgCheck(f, bits)
        cf == clampFreq(f)
        flags == connectFlags(m, port.c)
        reclock == (port.maxFreq = 0 \/ cf < port.maxFreq)
        clk == mpsseClock(port.maxFreq)
        clkCmd == IF reclock THEN <<mpsseClockBytes(port.maxFreq)>> ELSE <<>>
    IN  /\ IF chk # "ok"
           THEN PortCall("Connect", f, m, chk, <<>>, port.maxFreq,
                         port.usingSPI, port.c)
           ELSE IF flags.halfDuplex
           THEN PortCall("Connect", f, m, "errHalfDuplex", <<>>, port.maxFreq,
                         port.usingSPI, flags)
           ELSE IF modeBits(m) > 3
           THEN PortCall("Connect", f, m, "errMode", <<>>, port.maxFreq,
                         port.usingSPI, flags)
           ELSE IF reclock /\ clk.err # "none"
           THEN PortCall("Connect", f, m,
                         IF clk.err = "panic" THEN "panic" ELSE "errSpeed",
                         <<>>, port.maxFreq, port.usingSPI, flags)
           ELSE \E w1, w2 \in BOOLEAN :
                  IF reclock /\ ~w1
                  THEN PortCall("Connect", f, m, "errIO", <<>>, port.maxFreq,
                                port.usingSPI, flags)
                  ELSE IF ~w2
                  THEN PortCall("Connect", f, m, "errIO", clkCmd,
                                IF reclock THEN cf ELSE port.maxFreq,
                                port.usingSPI, flags)
                  ELSE PortCall("Connect", f, m, "ok",
                                Append(clkCmd,
                                       mpsseDBusFrame(spiMosi + spiClk + spiCs,
                                                      connectValue(flags))),
                                IF reclock THEN cf ELSE port.maxFreq,
                                TRUE, flags)
        /\ UNCHANGED outsideSPI

\* spiMPSEEPort.LimitSpeed(f).  w is the outcome of the write made by
\* mpsseClock; maxFreq is stored before the clock is programmed.
SLimitSpeed(f) ==
    LET cf == clampFreq(f)
    IN  /\ IF f > GigaHertz \/ cf < 100 * Hertz
           THEN PortCall("LimitSpeed", f, 0, "errSpeed", <<>>, port.maxFreq,
                         port.usingSPI, port.c)
           ELSE IF port.maxFreq # 0 /\ port.maxFreq <= cf
           THEN PortCall("LimitSpeed", f, 0, "ok", <<>>, port.maxFreq,
                         port.usingSPI, port.c)
           ELSE IF mpsseClock(cf).err # "none"
           THEN PortCall("LimitSpeed", f, 0, "errSpeed", <<>>, cf,
                         port.usingSPI, port.c)
           ELSE \E w \in BOOLEAN :
                  PortCall("LimitSpeed", f, 0, IF w THEN "ok" ELSE "errIO",
                           IF w THEN <<mpsseClockBytes(cf)>> ELSE <<>>, cf,
                           port.usingSPI, port.c)
        /\ UNCHANGED outsideSPI

\* spiMPSEEPort.Close(); the caller goes on with the port FT232H.SPI() hands
\* out again.
SClose ==
    /\ port' = NoPort
    /\ spiCall' = [NoSPICall EXCEPT !.op = "Close"]
    /\ lowest' = 0
    /\ UNCHANGED devClock
    /\ UNCHANGED outsideSPI

\* verifyBuffers(w, r); the 64Kb limits are out of reach of the packets.
verifyBuffers(w, nr) ==
    IF Len(w) # 0 /\ nr # 0 /\ Len(w) # nr THEN "errBuffers" ELSE "ok"

\* The checks TxPackets makes on one packet (spi.go:181-193).
pktCheckNoKeepCS(p) ==
    IF p.BitsPerWord % 8 # 0 THEN "errBits"
    ELSE IF p.BitsPerWord # 0 /\ p.BitsPerWord # 8 THEN "errBitsImpl"
    ELSE verifyBuffers(p.W, p.R)

pktCheck(p) ==
    IF p.KeepCS THEN "errKeepCS"
    ELSE IF p.BitsPerWord % 8 # 0 THEN "errBits"
    ELSE IF p.BitsPerWord # 0 /\ p.BitsPerWord # 8 THEN "errBitsImpl"
    ELSE verifyBuffers(p.W, p.R)

\* The first loop of TxPackets: the error of the first packet that fails a
\* check, from packet k on.
RECURSIVE pktsCheck(_, _)
pktsCheck(pkts, k) ==
    IF k > Len(pkts) THEN "ok"
    ELSE IF pktCheck(pkts[k]) # "ok" THEN pktCheck(pkts[k])
    ELSE pktsCheck(pkts, k + 1)

\* <<ew, er>>, the edges TxPackets passes to mpsseTx (spi.go:218-229).
txEdges(c) ==
    LET e == IF c.edgeInvert THEN <<"rising", "falling">>
             ELSE <<"falling", "rising">>
    IN  IF c.clkActiveLow THEN <<e[2], e[1]>> ELSE e

\* device.mpsseTx: the opcode and the command written (i2c.go:568-603).
mpsseTxOp(w, nr, ew, er, lsbf) ==
    (IF lsbf THEN dataLSBF ELSE 0)
    + (IF Len(w) # 0
       THEN dataOut + (IF ew = "falling" THEN dataOutFall ELSE 0) ELSE 0)
    + (IF nr # 0
       THEN dataIn + (IF er = "falling" THEN dataInFall ELSE 0) ELSE 0)

\* mpsseTx with the length itself, not the length minus one, in the header.
mpsseTxCmdFullLength(w, nr, ew, er, lsbf) ==
    LET l == IF nr # 0 THEN nr ELSE Len(w)
    IN  <<mpsseTxOp(w, nr, ew, er, lsbf), byte(l), byte(l \div 256)>>
        \o w

mpsseTxCmd(w, nr, ew, er, lsbf) ==
    LET l == IF nr # 0 THEN nr ELSE Len(w)
    IN  <<mpsseTxOp(w, nr, ew, er, lsbf), byte(l - 1), byte((l - 1) \div 256)>>
        \o w

\* The second loop of TxPackets from packet k on: n transport calls were
\* made and w was written so far; the transport call number failAt fails.
\* Each packet with a buffer takes a write (chip-select asserted), the write
\* of mpsseTx, its read when there is a read buffer, and a write (chip-select
\* deasserted).
RECURSIVE txSend(_, _, _, _, _, _)
txSend(c, pkts, k, n, failAt, w) ==
    IF k > Len(pkts) THEN [res |-> "ok", wire |-> w]
    ELSE IF Len(pkts[k].W) = 0 /\ pkts[k].R = 0
    THEN txSend(c, pkts, k + 1, n, failAt, w)
    ELSE
      LET p == pkts[k]
          mask == spiMosi + spiClk + spiCs
          w1 == Append(w, mpsseDBusFrame(mask, txAssertValue(c)))
          w2 == Append(w1, mpsseTxCmd(p.W, p.R, txEdges(c)[1], txEdges(c)[2],
                                      c.lsbFirst))
          w3 == Append(w2, mpsseDBusFrame(mask, txDeassertValue(c)))
          reads == IF p.R # 0 THEN 1 ELSE 0
      IN  IF failAt = n + 1 THEN [res |-> "errIO", wire |-> w]
          ELSE IF failAt = n + 2 THEN [res |-> "errIO", wire |-> w1]
          ELSE IF reads = 1 /\ failAt = n + 3 THEN [res |-> "errIO", wire |-> w2]
          ELSE IF failAt = n + 3 + reads THEN [res |-> "errIO", wire |-> w2]
          ELSE txSend(c, pkts, k + 1, n + 3 + reads, failAt, w3)

\* The transport calls TxPackets makes for the packets from k on when none
\* fails: none when a packet fails a check.
RECURSIVE txCalls(_, _)
txCalls(pkts, k) ==
    IF pktsCheck(pkts, 1) # "ok" \/ k > Len(pkts) THEN 0
    ELSE (IF Len(pkts[k].W) = 0 /\ pkts[k].R = 0 THEN 0
          ELSE IF pkts[k].R # 0 THEN 4 ELSE 3) + txCalls(pkts, k + 1)

\* spiMPSEEConn.TxPackets(pkts) on the connection Connect returned.  The call
\* leaves the port and the connection as they are, so a call that follows
\* another TxPackets reaches the states the first one reaches: only the
\* first of a row is taken.
STxPackets(pkts, failAt) ==
    /\ port.usingSPI
    /\ spiCall.op # "TxPackets"
    /\ LET chk == pktsCheck(pkts, 1)
           out == IF chk # "ok" THEN [res |-> chk, wire |-> <<>>]
                  ELSE txSend(port.c, pkts, 1, 0, failAt, <<>>)
       IN  spiCall' = [op |-> "TxPackets", f |-> 0, m |-> 0, pkts |-> pkts,
                       res |-> out.res, wire |-> out.wire]
    /\ UNCHANGED <<port, devClock, lowest>>
    /\ UNCHANGED outsideSPI

\* The port as FT232H.SPI() returned it on a handle newFT232H built.
InitSPI == Init

NextSPI ==
    \/ \E f \in Freqs, m \in SPIModes, bits \in BitsPerWord : SConnect(f, m, bits)
    \/ \E f \in Freqs : SLimitSpeed(f)
    \/ SClose
    \/ \E pkts \in PacketLists : \E failAt \in 0..txCalls(pkts, 1) :
         STxPackets(pkts, failAt)

SpecSPI == InitSPI /\ [][NextSPI]_vars

----------------------------------------------------------------------------
\* Claims about the SPI port and connection of the FT232H.

\* C15: Connect and LimitSpeed never reject a frequency for being above the
\* maximum rate (30MHz): the request is clamped and the call goes on to its
\* other checks and to the device; a frequency below the minimum (100Hz) is
\* rejected with an error.
C15_ClampNotReject ==
    spiCall.op \in {"Connect", "LimitSpeed"} =>
        /\ (spiCall.f > 30 * MegaHertz => spiCall.res \notin {"errSpeed", "panic"})
        /\ (spiCall.f < 100 * Hertz => spiCall.res = "errSpeed")

IsClockCmd(cmd) == cmd[1] \in {clock30MHz, clock6MHz}

ClockCmds(w) == SelectSeq(w, IsClockCmd)

\* C16: a Connect or LimitSpeed that returns nil writes a clock command
\* exactly when the clamped frequency it was given is below the stored
\* ceiling (or none is stored), that command is the one of the frequency it
\* was given, and the device is left with the clock of the lowest frequency
\* asked for since the port was acquired.
C16_ClockFollowsLowest ==
    [][(spiCall'.op \in {"Connect", "LimitSpeed"} /\ spiCall'.res = "ok") =>
         LET cf == clampFreq(spiCall'.f)
             lower == (port.maxFreq = 0 \/ cf < port.maxFreq)
         IN  /\ ClockCmds(spiCall'.wire)
                  = IF lower THEN <<mpsseClockBytes(cf)>> ELSE <<>>
             /\ devClock' = mpsseClockBytes(lowest')]_vars

IsBank(cmd) == cmd[1] = gpioSetD

IsShift(cmd) == cmd[1] < gpioSetD

ClkLevel(cmd) == Bit(cmd[2], 0)

CsLevel(cmd) == Bit(cmd[2], 3)

\* C17: Connect with clock mode m stores the phase bit and the polarity bit,
\* and leaves the clock line at the level of the polarity bit; every shift
\* command of the connection then outputs on the falling edge exactly when
\* the phase bit is 0 and samples on the falling edge exactly when it is 1,
\* whatever the polarity.
C17_ModeDecides ==
    /\ (spiCall.op = "Connect" /\ spiCall.res = "ok") =>
          LET bank == spiCall.wire[Len(spiCall.wire)]
          IN  /\ port.c.edgeInvert = (Bit(modeBits(spiCall.m), 0) = 1)
              /\ port.c.clkActiveLow = (Bit(modeBits(spiCall.m), 1) = 1)
              /\ IsBank(bank)
              /\ ClkLevel(bank) = Bit(modeBits(spiCall.m), 1)
    /\ spiCall.op = "TxPackets" =>
          \A k \in 1..Len(spiCall.wire) :
              LET cmd == spiCall.wire[k]
                  cpha == IF port.c.edgeInvert THEN 1 ELSE 0
              IN  /\ IsBank(cmd) =>
                         ClkLevel(cmd) = (IF port.c.clkActiveLow THEN 1 ELSE 0)
                  /\ (IsShift(cmd) /\ Bit(cmd[1], 4) = 1) =>
                         Bit(cmd[1], 0) = 1 - cpha
                  /\ (IsShift(cmd) /\ Bit(cmd[1], 5) = 1) =>
                         Bit(cmd[1], 2) = cpha

HasBuffer(p) == Len(p.W) # 0 \/ p.R # 0

Offending(p) ==
    \/ p.KeepCS
    \/ p.BitsPerWord \notin {0, 8}
    \/ (Len(p.W) # 0 /\ p.R # 0 /\ Len(p.W) # p.R)

\* C19: a TxPackets with an offending packet returns an error, the
\* not-implemented one of KeepCS when KeepCS is the only offence, and has
\* written nothing, whatever packets come before the offending one.
C19_RejectBeforeSend ==
    (spiCall.op = "TxPackets"
     /\ \E k \in 1..Len(spiCall.pkts) : Offending(spiCall.pkts[k])) =>
        /\ spiCall.res \in {"errKeepCS", "errBits", "errBitsImpl", "errBuffers"}
        /\ (\A k \in 1..Len(spiCall.pkts) :
               Offending(spiCall.pkts[k]) =>
                   /\ spiCall.pkts[k].KeepCS
                   /\ spiCall.pkts[k].BitsPerWord \in {0, 8}
                   /\ ~(Len(spiCall.pkts[k].W) # 0 /\ spiCall.pkts[k].R # 0
                        /\ Len(spiCall.pkts[k].W) # spiCall.pkts[k].R))
           => spiCall.res = "errKeepCS"
        /\ spiCall.wire = <<>>

C19_Witness ==
    /\ spiCall.op = "TxPackets"
    /\ Len(spiCall.pkts) = 2
    /\ ~Offending(spiCall.pkts[1])
    /\ HasBuffer(spiCall.pkts[1])
    /\ spiCall.pkts[2].KeepCS
    /\ spiCall.res = "errKeepCS"
    /\ spiCall.wire = <<>>

----------------------------------------------------------------------------
\* spiSyncConn.TxPackets on an FT232R with one packet that writes one byte
\* and reads one byte (spi.go:427-548).

syMosi == 1

syMiso == 2

syClk == 4

syCs == 8

\* s.f.dvalue & s.f.dmask & 0xF0: the levels of the outputs among D4..D7.
HighNibbles == {0, 160}

\* What the bit of D0 holds in the frames read back.  D0 is an output of the
\* port, and FT232R.Tx gives a meaning to the bits of the inputs only
\* (dev.go:591-593): the bit is low, high, or the level driven on D0.
OutputReadbacks == {"low", "high", "driven"}

clkIdle(c, hi) == hi + (IF c.clkActiveLow THEN syClk ELSE 0)

clkActive(c, hi) == hi + (IF c.clkActiveLow THEN 0 ELSE syClk)

csIdle(c, hi) ==
    hi + (IF c.noCS THEN 0 ELSE syCs) + (IF c.clkActiveLow THEN syClk ELSE 0)

\* The level driven on MOSI for bit j of b (spi.go:491-503).
mosiBit(b, j, lsbFirst) == IF lsbFirst THEN Bit(b, j) ELSE Bit(b, 7 - j)

\* The two frames of one bit (spi.go:504-510).
bitFrames(c, hi, bit) ==
    IF ~c.edgeInvert
    THEN <<clkIdle(c, hi) + bit * syMosi, clkActive(c, hi) + bit * syMosi>>
    ELSE <<clkActive(c, hi) + bit * syMosi, clkIdle(c, hi) + bit * syMosi>>

\* we, the frames written for the byte b (spi.go:485-518).
expandByte(c, hi, b) ==
    <<csIdle(c, hi), clkIdle(c, hi), clkIdle(c, hi), clkIdle(c, hi),
      clkIdle(c, hi)>>
    \o [k \in 1..16 |->
          bitFrames(c, hi, mosiBit(b, (k - 1) \div 2, c.lsbFirst))[((k - 1) % 2) + 1]]
    \o <<clkIdle(c, hi), clkIdle(c, hi), clkIdle(c, hi), clkIdle(c, hi),
         csIdle(c, hi)>>

\* The frames at which the slave's bit is captured: the clock line makes its
\* leading edge (idle to active) when the phase bit is 0, its trailing edge
\* when it is 1.
CaptureFrames(c, we) ==
    {k \in 2..Len(we) :
        /\ Bit(we[k - 1], 2) # Bit(we[k], 2)
        /\ Bit(we[k], 2) = IF c.edgeInvert = c.clkActiveLow THEN 1 ELSE 0}

\* re, the frames read back: MISO carries at the capture frame of each bit
\* the bit driven on MOSI, and fill elsewhere.
sampledFrames(c, we, d0, fill) ==
    [k \in 1..Len(we) |->
        (CASE d0 = "low" -> 0
           [] d0 = "high" -> 1
           [] OTHER -> Bit(we[k], 0))
        + syMiso * (IF k \in CaptureFrames(c, we) THEN Bit(we[k], 0) ELSE fill)]

\* re[...]&byte(1)<<1 != 0: & and << bind alike in Go and group to the left.
sampleSet(x) == ((x % 2) * 2) # 0

RECURSIVE decodeFrom(_, _, _)
\* The byte rebuilt from re for bits j..7 of byte 0 of the read buffer
\* (spi.go:531-545).
decodeFrom(re, lsbFirst, j) ==
    IF j > 7 THEN 0
    ELSE (IF sampleSet(re[5 + j * 2 + 1 + 1])
          THEN (IF lsbFirst THEN 2 ^ j ELSE 2 ^ (7 - j)) ELSE 0)
         + decodeFrom(re, lsbFirst, j + 1)

SyConnected ==
    /\ sy = NoSync
    /\ \E b \in 0..255, lsb, inv, low, nocs \in BOOLEAN, hi \in HighNibbles :
         sy' = [at |-> "connected", b |-> b, hi |-> hi,
                c |-> [edgeInvert |-> inv, clkActiveLow |-> low, noCS |-> nocs,
                       lsbFirst |-> lsb, halfDuplex |-> FALSE]]
    /\ UNCHANGED outsideSync

\* TxPackets([{W: {b}, R: r}]); ok is the outcome of txLocked.
SyTxPackets ==
    /\ sy.at = "connected"
    /\ \E ok \in BOOLEAN, d0 \in OutputReadbacks, fill \in {0, 1} :
         LET we == expandByte(sy.c, sy.hi, sy.b)
             re == sampledFrames(sy.c, we, d0, fill)
         IN  sy' = [at |-> "done", b |-> sy.b, hi |-> sy.hi, c |-> sy.c,
                    res |-> IF ok THEN "ok" ELSE "errIO",
                    we |-> we,
                    re |-> IF ok THEN re ELSE <<>>,
                    r |-> IF ok THEN decodeFrom(re, sy.c.lsbFirst, 0) ELSE 0]
    /\ UNCHANGED outsideSync

\* The FT232R as newFT232R left it; no connection made yet.
InitSync == Init

NextSync == SyConnected \/ SyTxPackets

SpecSync == InitSync /\ [][NextSync]_vars

\* C20: for every byte, both bit orders and both capture edges, the byte
\* decoded from the frames read back is the byte that was expanded, when the
\* input line carries at the capture frame of each bit the bit driven on the
\* output line.
C20_RoundTrip ==
    (sy.at = "done" /\ sy.res = "ok") => sy.r = sy.b

----------------------------------------------------------------------------
\* Claims about the pin cache of bank D of the FT232H.

\* C21: after every call that wrote a pin-bank command for bank D and
\* returned nil (a pin operation, I2C(), the Close() of the I2C bus, SPI
\* Connect), the cached value and direction of the bank are the value byte
\* and the direction byte of the command the device got last.
C21_CacheIsLastWritten ==
    (last.res = "ok" /\ last.op \in {"PinOut", "PinIn", "I2C", "I2CClose", "Connect"})
        => devD = <<dbusValue, dbusDirection>>

----------------------------------------------------------------------------
\* One caller of the gpio.PinIO pins of bank D of an FT232H
\* (mpsse.go:398-514): what each call does to the cache, which transport
\* calls it makes and what it hands back.

\* mpsseDBusRead: the write of the opcode fails, the read fails, the read
\* returns no byte (the buffer keeps the opcode), or a byte comes back.
BusReadOutcomes == {"failWrite", "failRead", "nothing", "byte"}

\* (value, err) of mpsseDBusRead for an outcome and the byte v the device
\* holds ready.
busReadValue(o, v) ==
    IF o \in {"failWrite", "failRead"} THEN 0
    ELSE IF o = "nothing" THEN gpioReadD ELSE v

busReadCalls(o) == IF o = "failWrite" THEN 1 ELSE 2

busReadFailed(o) == o \in {"failWrite", "failRead"}

\* gpio.Level(v&(1<<n) != 0)
levelOf(v, n) == Bit(v, n)

\* gpiosMPSSE.out with the cache put back when the write fails.
POutRollback(n, l) ==
    /\ \E w \in BOOLEAN :
         /\ dbusDirection' = IF w THEN outDirection(dbusDirection, n) ELSE dbusDirection
         /\ dbusValue' = IF w THEN outValue(dbusValue, n, l) ELSE dbusValue
         /\ devD' = IF w THEN mpsseDBus(outDirection(dbusDirection, n),
                                       outValue(dbusValue, n, l))
                    ELSE devD
         /\ pinCall' = [op |-> "Out", n |-> n, l |-> l, io |-> 1,
                        failed |-> ~w, res |-> IF w THEN "ok" ELSE "errIO",
                        ret |-> NoLevel, fn |-> "none"]
    /\ UNCHANGED <<usingI2C, usingSPI, maxFreq, connFlags, i2cOpen, spiPort, last>>
    /\ UNCHANGED outsidePin

\* gpioMPSSE.Out(l) on pin n: gpiosMPSSE.out.
POut(n, l) ==
    /\ dbusDirection' = outDirection(dbusDirection, n)
    /\ dbusValue' = outValue(dbusValue, n, l)
    /\ \E w \in BOOLEAN :
         /\ devD' = IF w THEN mpsseDBus(outDirection(dbusDirection, n),
                                       outValue(dbusValue, n, l))
                    ELSE devD
         /\ pinCall' = [op |-> "Out", n |-> n, l |-> l, io |-> 1,
                        failed |-> ~w, res |-> IF w THEN "ok" ELSE "errIO",
                        ret |-> NoLevel, fn |-> "none"]
    /\ UNCHANGED <<usingI2C, usingSPI, maxFreq, connFlags, i2cOpen, spiPort, last>>
    /\ UNCHANGED outsidePin

\* gpioMPSSE.In(gpio.Float, gpio.NoEdge) on pin n: gpiosMPSSE.in.
PIn(n) ==
    /\ dbusDirection' = inDirection(dbusDirection, n)
    /\ \E w \in BOOLEAN :
         /\ devD' = IF w THEN mpsseDBus(inDirection(dbusDirection, n), dbusValue)
                    ELSE devD
         /\ pinCall' = [op |-> "In", n |-> n, l |-> 0, io |-> 1,
                        failed |-> ~w, res |-> IF w THEN "ok" ELSE "errIO",
                        ret |-> NoLevel, fn |-> "none"]
    /\ UNCHANGED <<usingI2C, usingSPI, maxFreq, connFlags, dbusValue, i2cOpen,
                   spiPort, last>>
    /\ UNCHANGED outsidePin

\* The level gpioMPSSE.Read hands back once gpiosMPSSE.read has returned
\* the byte v.
readLevel(v, cached, n) == levelOf(v, n)

\* gpioMPSSE.Read() on pin n: gpiosMPSSE.read stores what mpsseDBusRead
\* returned as the cached value; the error is dropped.
PRead(n) ==
    /\ \E o \in BusReadOutcomes, v \in ReplyBytes :
         /\ dbusValue' = busReadValue(o, v)
         /\ pinCall' = [op |-> "Read", n |-> n, l |-> 0, io |-> busReadCalls(o),
                        failed |-> busReadFailed(o), res |-> "ok",
                        ret |-> readLevel(busReadValue(o, v), dbusValue, n),
                        fn |-> "none"]
    /\ UNCHANGED <<usingI2C, usingSPI, maxFreq, connFlags, dbusDirection, devD,
                   i2cOpen, spiPort, last>>
    /\ UNCHANGED outsidePin

\* gpioMPSSE.Function() on pin n: an input is read from the device first,
\* an output is reported from the cache.
PFunction(n) ==
    /\ IF Bit(dbusDirection, n) = 0
       THEN \E o \in BusReadOutcomes, v \in ReplyBytes :
              /\ dbusValue' = busReadValue(o, v)
              /\ pinCall' = [op |-> "Function", n |-> n, l |-> 0,
                             io |-> busReadCalls(o), failed |-> busReadFailed(o),
                             res |-> "ok",
                             ret |-> levelOf(busReadValue(o, v), n), fn |-> "In"]
       ELSE /\ UNCHANGED dbusValue
            /\ pinCall' = [op |-> "Function", n |-> n, l |-> 0, io |-> 0,
                           failed |-> FALSE, res |-> "ok",
                           ret |-> levelOf(dbusValue, n), fn |-> "Out"]
    /\ UNCHANGED <<usingI2C, usingSPI, maxFreq, connFlags, dbusDirection, devD,
                   i2cOpen, spiPort, last>>
    /\ UNCHANGED outsidePin

\* The handle as newFT232H left it; no pin call made yet.
InitPin == Init

NextPin ==
    \/ \E n \in Pins, l \in Levels : POut(n, l)
    \/ \E n \in Pins : PIn(n)
    \/ \E n \in Pins : PRead(n)
    \/ \E n \in Pins : PFunction(n)

SpecPin == InitPin /\ [][NextPin]_vars

\* C22: a Read() that follows an Out(l) that returned nil on the same pin
\* makes no transport call and hands back l.
C22_ReadFromCache ==
    [][(pinCall.op = "Out" /\ pinCall.res = "ok" /\ pinCall'.op = "Read"
        /\ pinCall'.n = pinCall.n)
       => (pinCall'.io = 0 /\ pinCall'.ret = pinCall.l)]_vars

\* C23: a pin call during which a transport call failed returns an error,
\* and hands back no level.
C23_FailureReturned ==
    pinCall.failed => (pinCall.res # "ok" /\ pinCall.ret = NoLevel)

\* One caller that takes and gives back the two bus claims of an FT232H and
\* drives its pins, without SPI traffic.
InitClaim == Init

NextClaim ==
    \/ FT232H_I2C
    \/ I2CClose
    \/ FT232H_SPI
    \/ SPIClose
    \/ \E n \in Pins, l \in Levels : PinOut(n, l)
    \/ \E n \in Pins : PinIn(n)

SpecClaim == InitClaim /\ [][NextClaim]_vars

\* C24: when FT232H.I2C() has returned a transport error (the configuration
\* of the engine or the idle frame could not be written), no claim is held:
\* the next I2C() or SPI() on the handle passes the exclusivity test.
C24_FailedOpenDropsClaim ==
    (last.op = "I2C" /\ last.res = "errIO")
        => (I2CClaimGuard = "ok" /\ SPIClaimGuard = "ok")

\* I2C() failed on the idle frame: the cache holds the idle lines, the
\* device never got them, and the claim is gone.
C24_Witness ==
    /\ last.op = "I2C" /\ last.res = "errIO"
    /\ BitAnd(dbusDirection, i2cD0 + i2cD1) = i2cD0 + i2cD1
    /\ devD # setI2CLinesIdleFrame(dbusDirection, dbusValue)
    /\ ~usingI2C

\* C25: a Tx that wrote the start condition has, when it returns (nil, NAK
\* or a transport error), written the stop condition and then the idle
\* frame as the last two things on the bus.
C25_StopAfterStart ==
    (itx.at = "done" /\ Len(iwire) > 0 /\ iwire[1].op = "start")
        => /\ Len(iwire) >= 3
           /\ iwire[Len(iwire) - 1].op = "stop"
           /\ iwire[Len(iwire)].op = "idle"

----------------------------------------------------------------------------
\* The command grammar of the engine (mpsse.go:25-131) and the byte streams
\* written when the I2C bus is opened and closed (i2c.go:104-143).

clock3Phase == 140

dataTristate == 158

internalLoopbackEnable == 132

\* Opcodes that take no argument byte.
OpcodesAlone ==
    {gpioReadD, gpioReadC, internalLoopbackEnable, internalLoopbackDisable,
     clock30MHz, clock6MHz, clock3Phase, clock2Phase, clockNormal}

\* Opcodes followed by two argument bytes.
OpcodesTwoArgs == {gpioSetD, gpioSetC, clockSetDivisor, dataTristate}

\* A serial shift opcode: below 0x80 with dataOut or dataIn set.
isShiftOp(op) == op < 128 /\ (Bit(op, 4) = 1 \/ Bit(op, 5) = 1) /\ Bit(op, 6) = 0

\* Number of bytes of the command that begins stream s; 0 when s[1] is no
\* opcode.  A long shift carries its length minus one in two bytes, a short
\* one in one byte; the payload follows when dataOut is set.
cmdLen(s) ==
    LET op == s[1]
    IN  IF op \in OpcodesAlone THEN 1
        ELSE IF op \in OpcodesTwoArgs THEN 3
        ELSE IF ~isShiftOp(op) THEN 0
        ELSE IF Bit(op, 1) = 1 THEN 2 + Bit(op, 4)
        ELSE IF Len(s) < 3 THEN 3
        ELSE 3 + (IF Bit(op, 4) = 1 THEN s[2] + 256 * s[3] + 1 ELSE 0)

\* The commands the engine parses out of stream s, in order; the stream is
\* cut at the first byte that is no opcode or at a command that is short of
\* bytes, and that rest is the last element, tagged.
RECURSIVE engineParse(_)
engineParse(s) ==
    IF s = <<>> THEN <<>>
    ELSE LET n == cmdLen(s)
         IN  IF n = 0 \/ n > Len(s) THEN <<[bad |-> TRUE, bytes |-> s]>>
             ELSE <<[bad |-> FALSE, bytes |-> SubSeq(s, 1, n)]>>
                  \o engineParse(SubSeq(s, n + 1, Len(s)))

\* f and clk of setupI2C.
i2cDefaultFreq == 400 * KiloHertz

setupI2CClk == ((((30 * MegaHertz) \div i2cDefaultFreq) - 1) * 2) \div 3

\* cmd of setupI2C
setupI2CCmd ==
    <<clock3Phase, dataTristate, 7, 0,
      clock30MHz, byte(setupI2CClk), byte(setupI2CClk \div 256)>>

\* cmd of stopI2C
stopI2CCmd == <<clock2Phase, dataTristate, 0, 0, clock30MHz, 0, 0>>

\* C26: the bytes written by an I2C() that returned a bus (the engine
\* configuration, then the idle frame) and by a Close() that returned nil
\* parse as engine commands with nothing left over, and the opening stream
\* holds the command <0x86, low, high> carrying the divisor of the default
\* clock.
C26_OpenCloseWellFormed ==
    LET opened == engineParse(setupI2CCmd \o <<gpioSetD>> \o devD)
        closed == engineParse(stopI2CCmd)
    IN  /\ (last.op = "I2C" /\ last.res = "ok")
            => /\ \A k \in 1 .. Len(opened) : ~opened[k].bad
               /\ \E k \in 1 .. Len(opened) :
                    opened[k].bytes = <<clockSetDivisor, byte(setupI2CClk),
                                        byte(setupI2CClk \div 256)>>
        /\ (last.op = "I2CClose" /\ last.res = "ok")
            => \A k \in 1 .. Len(closed) : ~closed[k].bad

\* C27: the pin-bank command the device got from a pin call that returned
\* nil is <opcode, value, direction>: after Out(l) on pin n the direction
\* byte (third) has bit n set and the value byte (second) has bit n equal to
\* l; after In() on pin n the direction byte has bit n clear.
C27_FrameOrder ==
    LET frame == <<gpioSetD>> \o devD
    IN  /\ (pinCall.op = "Out" /\ pinCall.res = "ok")
            => (Bit(frame[3], pinCall.n) = 1 /\ Bit(frame[2], pinCall.n) = pinCall.l)
        /\ (pinCall.op = "In" /\ pinCall.res = "ok")
            => Bit(frame[3], pinCall.n) = 0

----------------------------------------------------------------------------
\* One call of device.mpsseTx(w, r, ew, er, lsbf) (i2c.go:568-610) with
\* buffers of every length around its limits.

\* The longest buffer mpsseTx takes.
maxTxLen == 65536

\* len(w) and len(r): none, the shortest, across the low byte of the
\* length, the longest and one more.
TxLens == {0, 1, 2, 257, maxTxLen, maxTxLen + 1}

Edges == {"rising", "falling"}

\* A write buffer of n bytes.
wBuf(n) == [k \in 1 .. n |-> (7 * k) % 256]

\* The checks mpsseTx makes on the lengths before it writes.
mpsseTxErr(lw, nr) ==
    IF lw # 0 /\ lw > maxTxLen THEN "errWriteTooLong"
    ELSE IF nr # 0 /\ nr > maxTxLen THEN "errReadTooLong"
    ELSE IF nr # 0 /\ lw # 0 /\ nr # lw THEN "errMismatch"
    ELSE "ok"

\* o: the transport goes through, the write fails, or the read fails.
TxOutcomes == {"ok", "writeErr", "readErr"}

MTxCall ==
    /\ mtx.at = "idle"
    /\ \E lw \in TxLens, nr \in TxLens, ew \in Edges, er \in Edges,
          lsbf \in BOOLEAN, o \in TxOutcomes :
         LET e == mpsseTxErr(lw, nr)
             call == [at |-> "done", lw |-> lw, nr |-> nr, ew |-> ew, er |-> er,
                      lsbf |-> lsbf, res |-> e, tried |-> <<>>, reads |-> 0]
         IN  /\ e # "ok" => o = "ok"
             /\ o = "readErr" => nr # 0
             /\ mtx' = IF e # "ok" THEN call
                       ELSE [call EXCEPT
                               !.tried = mpsseTxCmd(wBuf(lw), nr, ew, er, lsbf),
                               !.reads = IF o # "writeErr" /\ nr # 0 THEN 1 ELSE 0,
                               !.res = IF o = "ok" THEN "ok" ELSE "errIO"]
    /\ UNCHANGED <<handleVars, concVars, bringVars, i2cVars, clockVars, spiVars,
                   syncVars, pinVars, rVars, vVars, lVars>>

\* The caller takes the result; the next call may begin.
MTxReturn ==
    /\ mtx.at = "done"
    /\ mtx' = NoMpsseTx
    /\ UNCHANGED <<handleVars, concVars, bringVars, i2cVars, clockVars, spiVars,
                   syncVars, pinVars, rVars, vVars, lVars>>

InitTx == Init

NextTx == MTxCall \/ MTxReturn

SpecTx == InitTx /\ [][NextTx]_vars

\* C28: a call of mpsseTx for n bytes, 1 <= n <= 65536 (w of n bytes, r of n
\* bytes, or both), hands the transport one command: the opcode, the low
\* byte of n-1, the high byte of n-1, then the bytes of w and nothing else;
\* the opcode has the out flag iff w is not empty, the in flag iff r is not
\* empty, the falling flag of each direction in use whose edge is falling,
\* the LSB-first flag iff asked, and no other bit.  A buffer longer than
\* 65536 bytes, or w and r both non-empty of different lengths, gives an
\* error and nothing is handed to the transport.
C28_TxHeader ==
    mtx.at = "done" =>
      LET n == IF mtx.nr # 0 THEN mtx.nr ELSE mtx.lw
          c == mtx.tried
          bad == \/ mtx.lw > maxTxLen \/ mtx.nr > maxTxLen
                 \/ (mtx.lw # 0 /\ mtx.nr # 0 /\ mtx.lw # mtx.nr)
      IN  /\ bad => (c = <<>> /\ mtx.reads = 0 /\ mtx.res \notin {"ok", "errIO"})
          /\ (~bad /\ n >= 1) =>
               /\ Len(c) = 3 + mtx.lw
               /\ c[2] + 256 * c[3] = n - 1
               /\ c[2] \in 0 .. 255 /\ c[3] \in 0 .. 255
               /\ SubSeq(c, 4, Len(c)) = wBuf(mtx.lw)
               /\ Bit(c[1], 4) = (IF mtx.lw # 0 THEN 1 ELSE 0)
               /\ Bit(c[1], 5) = (IF mtx.nr # 0 THEN 1 ELSE 0)
               /\ Bit(c[1], 0) = (IF mtx.lw # 0 /\ mtx.ew = "falling" THEN 1 ELSE 0)
               /\ Bit(c[1], 2) = (IF mtx.nr # 0 /\ mtx.er = "falling" THEN 1 ELSE 0)
               /\ Bit(c[1], 3) = (IF mtx.lsbf THEN 1 ELSE 0)
               /\ Bit(c[1], 1) = 0 /\ c[1] < 64

\* A full-duplex transfer of 257 bytes went through: the header carries
\* 256 as <0, 1>.
C28_Witness ==
    /\ mtx.at = "done" /\ mtx.res = "ok"
    /\ mtx.lw = 257 /\ mtx.nr = 257
    /\ Len(mtx.tried) = 260 /\ mtx.tried[2] = 0 /\ mtx.tried[3] = 1
    /\ mtx.reads = 1

----------------------------------------------------------------------------
\* Claims about the read buffer of spiSyncConn.TxPackets.

\* The capture frame of bit j (0 for the first bit clocked) among frames we.
captureFrameOf(c, we, j) ==
    CHOOSE k \in CaptureFrames(c, we) :
        Cardinality({m \in CaptureFrames(c, we) : m < k}) = j

\* C29: every bit of the byte decoded by a TxPackets that returned nil is
\* bit 1 (MISO, D1/RX) of the frame read back at the capture frame of that
\* bit, whatever the other bits of the frames hold.
C29_DecodesMiso ==
    (sy.at = "done" /\ sy.res = "ok") =>
        \A j \in 0 .. 7 :
            Bit(sy.r, IF sy.c.lsbFirst THEN j ELSE 7 - j)
                = Bit(sy.re[captureFrameOf(sy.c, sy.we, j)], 1)

----------------------------------------------------------------------------
\* spiSyncConn.TxPackets on an FT232R with several packets, each writing one
\* byte and reading one byte (spi.go:427-548).

\* The bytes the packets write.
SyncBytes == {0, 85, 255}

SyncPacketLists == UNION {[1 .. n -> SyncBytes] : n \in 1 .. MaxSyncPkts}

\* we for packets writing the bytes bs: five leading frames, sixteen frames
\* for each byte of each packet in turn, five trailing frames.
RECURSIVE byteFramesFrom(_, _, _, _)
byteFramesFrom(c, hi, bs, k) ==
    IF k > Len(bs) THEN <<>>
    ELSE SubSeq(expandByte(c, hi, bs[k]), 6, 21) \o byteFramesFrom(c, hi, bs, k + 1)

expandPackets(c, hi, bs) ==
    <<csIdle(c, hi), clkIdle(c, hi), clkIdle(c, hi), clkIdle(c, hi),
      clkIdle(c, hi)>>
    \o byteFramesFrom(c, hi, bs, 1)
    \o <<clkIdle(c, hi), clkIdle(c, hi), clkIdle(c, hi), clkIdle(c, hi),
         csIdle(c, hi)>>

\* p.R of every packet after the decoding loop: the index into re is
\* 5+i*8*2+j*2+1 with i the index of the byte within its own packet.
decodePackets(re, lsbFirst, n) == [k \in 1 .. n |-> decodeFrom(re, lsbFirst, 0)]

SyConnectedMulti ==
    /\ sy = NoSync
    /\ \E bs \in SyncPacketLists, lsb, inv, low, nocs \in BOOLEAN, hi \in HighNibbles :
         sy' = [at |-> "connected", bs |-> bs, hi |-> hi,
                c |-> [edgeInvert |-> inv, clkActiveLow |-> low, noCS |-> nocs,
                       lsbFirst |-> lsb, halfDuplex |-> FALSE]]
    /\ UNCHANGED outsideSync

\* TxPackets([{W: {bs[1]}, R: r1}, {W: {bs[2]}, R: r2}, ...]); ok is the
\* outcome of txLocked.
SyTxPacketsMulti ==
    /\ sy.at = "connected"
    /\ \E ok \in BOOLEAN, d0 \in OutputReadbacks, fill \in {0, 1} :
         LET we == expandPackets(sy.c, sy.hi, sy.bs)
             re == sampledFrames(sy.c, we, d0, fill)
         IN  sy' = [at |-> "done", bs |-> sy.bs, hi |-> sy.hi, c |-> sy.c,
                    res |-> IF ok THEN "ok" ELSE "errIO",
                    we |-> we,
                    re |-> IF ok THEN re ELSE <<>>,
                    r |-> IF ok THEN decodePackets(re, sy.c.lsbFirst, Len(sy.bs))
                          ELSE [k \in 1 .. Len(sy.bs) |-> 0]]
    /\ UNCHANGED outsideSync

InitSyncMulti == Init

NextSyncMulti == SyConnectedMulti \/ SyTxPacketsMulti

SpecSyncMulti == InitSyncMulti /\ [][NextSyncMulti]_vars

\* C30: after a TxPackets of several one-byte packets that returned nil, the
\* byte in the read buffer of packet k is the byte the decoder rebuilds from
\* the sixteen frames clocked for packet k: those that follow the five
\* leading frames and the frames of the packets before it.
C30_PacketOwnFrames ==
    (sy.at = "done" /\ sy.res = "ok") =>
        \A k \in 1 .. Len(sy.bs) :
            sy.r[k] = decodeFrom(SubSeq(sy.re, 16 * (k - 1) + 1, Len(sy.re)),
                                 sy.c.lsbFirst, 0)

----------------------------------------------------------------------------
\* One caller of an FT232R in synchronous bit-bang mode (dev.go:570-718):
\* SetDBusMask, Tx and the D-bus pins.  In this mode the device queues one
\* sample byte for every byte written to it.

outsideR ==
    <<handleVars, concVars, bringVars, i2cVars, clockVars, spiVars, syncVars,
      pinVars, txVars, vVars, lVars>>

\* const chunk of FT232R.Tx
chunk == 64

\* len(w) passed to Tx; len(r) is the same or one more.
RTxLens == {0, 1, chunk + 1, 2 * chunk}

\* cap(w) - len(w) of the buffer passed to Tx.
RTxSpare == {0, chunk}

\* The sample the device takes before it outputs byte i of w (from 1).
sampleAt(i) == (i % 200) + 1

\* A byte that was in the receive queue before the call began.
staleByte == 2 ^ 8 - 1

\* Bytes over the pins of the model.
PinBytes == 0 .. (2 ^ (MaxPin + 1) - 1)

Min(a, b) == IF a < b THEN a ELSE b

\* a with a[off+1 .. off+Len(d)] replaced by d
storeAt(a, off, d) ==
    [k \in 1 .. Len(a) |-> IF k > off /\ k <= off + Len(d) THEN d[k - off] ELSE a[k]]

\* The loop of FT232R.Tx (dev.go:612-625).  st holds the slices w and r as
\* offsets into their arrays (W, of cap(w) bytes, and R), the receive queue
\* q, the bytes written so far, the number n of transport calls made and the
\* result.  r is a slice of R until the first 'r = w[c:]', of W after it.
\* The transport call number failAt fails.
RECURSIVE rtxLoop(_, _)
rtxLoop(st, failAt) ==
    IF st.wLen = 0 THEN [st EXCEPT !.res = "ok"]
    ELSE
      LET c == Min(st.wLen, chunk)
          sent == SubSeq(st.W, st.wOff + 1, st.wOff + c)
          q1 == st.q \o [k \in 1 .. c |-> sampleAt(st.wOff + k)]
          s1 == [st EXCEPT !.wire = st.wire \o sent, !.q = q1, !.n = st.n + 1]
          data == SubSeq(q1, 1, c)
          s2 == [s1 EXCEPT
                   !.q = SubSeq(q1, c + 1, Len(q1)),
                   !.n = st.n + 2,
                   !.W = IF st.rArr = "w" THEN storeAt(st.W, st.rOff, data) ELSE st.W,
                   !.R = IF st.rArr = "r" THEN storeAt(st.R, st.rOff, data) ELSE st.R,
                   !.wOff = st.wOff + c,
                   !.wLen = st.wLen - c]
      IN  IF failAt = st.n + 1 THEN [st EXCEPT !.res = "errIO", !.n = st.n + 1]
          ELSE IF c > st.rCap THEN [s1 EXCEPT !.res = "panic"]
          ELSE IF failAt = st.n + 2 THEN [s1 EXCEPT !.res = "errIO", !.n = st.n + 2]
          ELSE IF c > s2.wLen THEN [s2 EXCEPT !.res = "panic"]
          ELSE rtxLoop([s2 EXCEPT !.rArr = "w",
                                  !.rOff = s2.wOff + c,
                                  !.rCap = Len(st.W) - (s2.wOff + c)],
                       failAt)

\* The transport calls Tx makes for lw bytes at most.
rtxCalls(lw) == 2 * ((lw + chunk - 1) \div chunk)

\* FT232R.Tx(w, r) with len(w) = lw, cap(w) = lw + spare, len(r) = cap(r) = lr.
RTx(lw, lr, spare) ==
    /\ \E failAt \in 0 .. rtxCalls(lw) :
         LET W0 == wBuf(lw) \o [k \in 1 .. spare |-> 0]
             st0 == [wOff |-> 0, wLen |-> lw, rArr |-> "r", rOff |-> 0, rCap |-> lr,
                     W |-> W0, R |-> [k \in 1 .. lr |-> 0],
                     q |-> [k \in 1 .. rq |-> staleByte],
                     wire |-> <<>>, n |-> 0, res |-> "none"]
             st == IF lw # lr THEN [st0 EXCEPT !.res = "errLength"]
                   ELSE rtxLoop(st0, failAt)
         IN  /\ (lw # lr => failAt = 0)
             /\ (failAt # 0 => st.res = "errIO")
             /\ Len(st.q) <= MaxQueue
             /\ rq' = Len(st.q)
             /\ rcall' = [op |-> "Tx", lw |-> lw, lr |-> lr, res |-> st.res,
                          W0 |-> W0, W |-> st.W, R |-> st.R, wire |-> st.wire,
                          io |-> st.n, written |-> Len(st.wire),
                          read |-> Len(st.wire) + rq - Len(st.q)]
    /\ UNCHANGED ft
    /\ UNCHANGED outsideR

\* FT232R.SetDBusMask(mask)
RSetDBusMask(mask) ==
    /\ \E ok \in BOOLEAN :
         /\ (mask = ft.dmask => ok)
         /\ ft' = IF ok THEN [ft EXCEPT !.dmask = mask] ELSE ft
         /\ rcall' = [op |-> "SetDBusMask", n |-> 0, l |-> 0,
                      res |-> IF ok THEN "ok" ELSE "errIO",
                      modes |-> IF mask # ft.dmask THEN <<mask>> ELSE <<>>,
                      wire |-> <<>>, written |-> 0, read |-> 0,
                      level |-> NoLevel, stale |-> FALSE, fn |-> "none", was |-> ft]
    /\ UNCHANGED rq
    /\ UNCHANGED outsideR

\* What syncBusReadLocked(n) does: o says whether the write fails, the read
\* fails, the read finds no byte ready, or the read returns a byte; v is the
\* sample taken for the byte written.  Gives the level returned, the cached
\* value after the call, the queue after the call, and whether the byte
\* returned had been queued before the call.
SyncReadOutcomes == {"writeErr", "readErr", "nothing", "byte"}

syncBusReadLocked(n, o, v) ==
    LET stale == rq > 0
        b == IF stale THEN staleByte ELSE v
    IN  CASE o = "writeErr" ->
               [level |-> 0, dvalue |-> ft.dvalue, q |-> rq, stale |-> FALSE,
                wire |-> <<>>, read |-> 0, failed |-> TRUE]
          [] o = "readErr" ->
               [level |-> 0, dvalue |-> ft.dvalue, q |-> rq + 1, stale |-> FALSE,
                wire |-> <<ft.dvalue>>, read |-> 0, failed |-> TRUE]
          [] o = "nothing" ->
               [level |-> Bit(ft.dvalue, n), dvalue |-> ft.dvalue, q |-> rq + 1,
                stale |-> FALSE, wire |-> <<ft.dvalue>>, read |-> 0, failed |-> FALSE]
          [] OTHER ->
               [level |-> Bit(b, n), dvalue |-> b, q |-> rq, stale |-> stale,
                wire |-> <<ft.dvalue>>, read |-> 1, failed |-> FALSE]

\* FT232R.syncBusRead(n)
RSyncBusRead(n) ==
    /\ \E o \in SyncReadOutcomes, v \in PinBytes :
         LET x == syncBusReadLocked(n, o, v)
         IN  /\ (o # "byte" => v = 0)
             /\ x.q <= MaxQueue
             /\ ft' = [ft EXCEPT !.dvalue = x.dvalue]
             /\ rq' = x.q
             /\ rcall' = [op |-> "Read", n |-> n, l |-> 0, res |-> "ok",
                          modes |-> <<>>, wire |-> x.wire,
                          written |-> Len(x.wire), read |-> x.read,
                          level |-> x.level, stale |-> x.stale, fn |-> "none",
                          was |-> ft]
    /\ UNCHANGED outsideR

\* FT232R.syncBusFunc(n)
RSyncBusFunc(n) ==
    /\ IF Bit(ft.dmask, n) # 0
       THEN /\ rcall' = [op |-> "Func", n |-> n, l |-> 0, res |-> "ok",
                         modes |-> <<>>, wire |-> <<>>, written |-> 0, read |-> 0,
                         level |-> Bit(ft.dvalue, n), stale |-> FALSE, fn |-> "Out",
                         was |-> ft]
            /\ UNCHANGED <<ft, rq>>
       ELSE \E o \in SyncReadOutcomes, v \in PinBytes :
              LET x == syncBusReadLocked(n, o, v)
              IN  /\ (o # "byte" => v = 0)
                  /\ x.q <= MaxQueue
                  /\ ft' = [ft EXCEPT !.dvalue = x.dvalue]
                  /\ rq' = x.q
                  /\ rcall' = [op |-> "Func", n |-> n, l |-> 0, res |-> "ok",
                               modes |-> <<>>, wire |-> x.wire,
                               written |-> Len(x.wire), read |-> x.read,
                               level |-> x.level, stale |-> x.stale, fn |-> "In",
                               was |-> ft]
    /\ UNCHANGED outsideR

\* FT232R.syncBusIn(n)
RSyncBusIn(n) ==
    /\ \E ok \in BOOLEAN :
         LET v == ClearBit(ft.dmask, n)
             already == Bit(ft.dmask, n) = 0
         IN  /\ (already => ok)
             /\ ft' = IF ok THEN [ft EXCEPT !.dmask = v] ELSE ft
             /\ rcall' = [op |-> "In", n |-> n, l |-> 0,
                          res |-> IF ok THEN "ok" ELSE "errIO",
                          modes |-> IF already THEN <<>> ELSE <<v>>,
                          wire |-> <<>>, written |-> 0, read |-> 0,
                          level |-> NoLevel, stale |-> FALSE, fn |-> "none",
                          was |-> ft]
    /\ UNCHANGED rq
    /\ UNCHANGED outsideR

\* 'f.dmask&mask != 1' of syncBusOut: whether the direction is programmed.
syncBusOutWasInput(dmask, n) == BitAnd(dmask, 2 ^ n) # 1

\* The byte syncBusOut(n, l) writes: 'b := [1]byte{f.dvalue}'.
syncBusOutByte(dvalue, n, l) == dvalue

\* FT232R.syncBusOut(n, l).  failAt: the transport call that fails, among
\* the setBitMode (when made) and the two writes.
RSyncBusOut(n, l) ==
    /\ \E failAt \in 0 .. 3 :
         LET prog == syncBusOutWasInput(ft.dmask, n)
             v == SetBit(ft.dmask, n)
             calls == IF prog THEN 3 ELSE 2
             modeFails == prog /\ failAt = 1
             b == syncBusOutByte(ft.dvalue, n, l)
             writes == IF modeFails THEN 0
                       ELSE IF failAt = 0 THEN 2
                       ELSE failAt - (IF prog THEN 2 ELSE 1)
         IN  /\ failAt <= calls
             /\ rq + writes <= MaxQueue
             /\ ft' = [dmask |-> IF prog /\ ~modeFails THEN v ELSE ft.dmask,
                       dvalue |-> IF writes >= 1 THEN b ELSE ft.dvalue]
             /\ rq' = rq + writes
             /\ rcall' = [op |-> "Out", n |-> n, l |-> l,
                          res |-> IF failAt = 0 THEN "ok" ELSE "errIO",
                          modes |-> IF prog THEN <<v>> ELSE <<>>,
                          wire |-> [k \in 1 .. writes |-> b],
                          written |-> writes, read |-> 0,
                          level |-> NoLevel, stale |-> FALSE, fn |-> "none",
                          was |-> ft]
    /\ UNCHANGED outsideR

\* The FT232R as newFT232R left it: every pin an input, nothing queued.
InitR == Init

NextR ==
    \/ \E lw \in RTxLens, d \in {0, 1}, spare \in RTxSpare : RTx(lw, lw + d, spare)
    \/ \E mask \in PinBytes : RSetDBusMask(mask)
    \/ \E n \in Pins : RSyncBusRead(n)
    \/ \E n \in Pins : RSyncBusFunc(n)
    \/ \E n \in Pins : RSyncBusIn(n)
    \/ \E n \in Pins, l \in Levels : RSyncBusOut(n, l)

SpecR == InitR /\ [][NextR]_vars

----------------------------------------------------------------------------
\* Claims about the FT232R in synchronous bit-bang mode.

\* C31: a Tx with buffers of different lengths returns an error without any
\* transport call; a Tx with buffers of one length in which no transport
\* call failed returns nil, has written exactly the bytes of w in order, has
\* left w as it was and, the receive queue being empty, has put in r[i] the
\* sample taken before w[i] was output, for every i.
C31_TxChunks ==
    rcall.op = "Tx" =>
        /\ (rcall.lw # rcall.lr) => (rcall.res = "errLength" /\ rcall.io = 0)
        /\ (rcall.lw = rcall.lr /\ rcall.res # "errIO") =>
             /\ rcall.res = "ok"
             /\ rcall.wire = SubSeq(rcall.W0, 1, rcall.lw)
             /\ rcall.W = rcall.W0
             /\ (rq = 0 => \A i \in 1 .. rcall.lr : rcall.R[i] = sampleAt(i))

\* C32: after a syncBusOut(n, l) that returned nil, bit n of dmask is set,
\* bit n of dvalue and of every byte written is l, the other bits of dmask
\* and dvalue are as before, and the direction was programmed only if pin n
\* was an input before.
C32_SyncBusOut ==
    (rcall.op = "Out" /\ rcall.res = "ok") =>
        /\ Bit(ft.dmask, rcall.n) = 1
        /\ Bit(ft.dvalue, rcall.n) = rcall.l
        /\ \A k \in 1 .. Len(rcall.wire) : Bit(rcall.wire[k], rcall.n) = rcall.l
        /\ \A p \in Pins \ {rcall.n} :
             /\ Bit(ft.dmask, p) = Bit(rcall.was.dmask, p)
             /\ Bit(ft.dvalue, p) = Bit(rcall.was.dvalue, p)
        /\ (rcall.modes # <<>> => Bit(rcall.was.dmask, rcall.n) = 0)

\* C33: a syncBusOut or a Tx that returned nil has read as many sample bytes
\* as it wrote bytes, and a level read (Read, or Function on an input) never
\* returns a byte that was queued before it began.
C33_QueueDrained ==
    /\ (rcall.op \in {"Out", "Tx"} /\ rcall.res = "ok") => rcall.read = rcall.written
    /\ (rcall.op \in {"Read", "Func"}) => ~rcall.stale

----------------------------------------------------------------------------
\* C34: an Out(l) or In() on pin n of bank D whose write fails returns the
\* error, leaves the device with the command it had, and leaves the cache
\* with the new direction bit (and, for Out, the new value bit) of pin n,
\* the other bits being as before.
C34_CacheKeptOnFailure ==
    [][(pinCall'.op \in {"Out", "In"} /\ pinCall'.failed) =>
         LET n == pinCall'.n
         IN  /\ pinCall'.res # "ok"
             /\ devD' = devD
             /\ Bit(dbusDirection', n) = (IF pinCall'.op = "Out" THEN 1 ELSE 0)
             /\ (pinCall'.op = "Out" => Bit(dbusValue', n) = pinCall'.l)
             /\ (pinCall'.op = "In" => dbusValue' = dbusValue)
             /\ \A p \in Pins \ {n} :
                  /\ Bit(dbusDirection', p) = Bit(dbusDirection, p)
                  /\ Bit(dbusValue', p) = Bit(dbusValue, p)]_vars

\* Out(High) failed on a fresh handle: the cache says output high, the
\* device still has the all-input command.
C34_Witness ==
    /\ pinCall.op = "Out" /\ pinCall.failed /\ pinCall.res = "errIO"
    /\ pinCall.l = 1
    /\ Bit(dbusDirection, pinCall.n) = 1 /\ Bit(dbusValue, pinCall.n) = 1
    /\ devD = <<0, 0>>

----------------------------------------------------------------------------
\* C35: when a TxPackets on a connection with chip-select returns, nil or
\* an error, the last pin-bank command it wrote, if it wrote any, has
\* chip-select high (idle).
C35_CSIdleOnReturn ==
    (spiCall.op = "TxPackets" /\ ~port.c.noCS) =>
        LET banks == SelectSeq(spiCall.wire, IsBank)
        IN  banks # <<>> => CsLevel(banks[Len(banks)]) = 1

----------------------------------------------------------------------------
\* One caller that opens and closes the I2C bus and the SPI port of an
\* FT232H and calls Tx on the bus value it was handed, whether or not that
\* bus is still open.  Tx runs under the lock of the handle, so the claims
\* change between transactions only.

\* Tx (i2c.go:63-89) up to its first byte, on the bus handed out by an
\* earlier I2C(): there is no test of the claim before the start condition
\* is written.  held records whether the claim was held when Tx began.
ITxBeginOnHandle ==
    /\ itx.at \in {"idle", "done"}
    /\ i2cOpen # "never"
    /\ \E addr \in I2CAddrs, w \in WriteBufs, nr \in 0 .. MaxReadLen, ok \in BOOLEAN :
         LET tx == [at |-> "addr", addr |-> addr, w |-> w, nr |-> nr, i |-> 1,
                    ret |-> "none", r |-> [k \in 1 .. nr |-> 0],
                    held |-> usingI2C]
         IN  IF ok
             THEN itx' = tx /\ iwire' = <<Ev("start", 0, 0)>>
             ELSE itx' = [tx EXCEPT !.at = "done", !.ret = "errIO"] /\ iwire' = <<>>
    /\ UNCHANGED outsideI2C

TxNotRunning == itx.at \in {"idle", "done"}

InitStale == Init

NextStale ==
    \/ TxNotRunning /\ FT232H_I2C
    \/ TxNotRunning /\ I2CClose
    \/ TxNotRunning /\ FT232H_SPI
    \/ TxNotRunning /\ SPIClose
    \/ ITxBeginOnHandle
    \/ ITxWriteByte
    \/ ITxReadByte
    \/ ITxStop
    \/ ITxLinesIdle

SpecStale == InitStale /\ [][NextStale]_vars

\* C36: a Tx begun on a bus whose claim is not held (the bus was closed)
\* has returned an error and has put nothing on the bus.
C36_StaleHandleSilent ==
    (itx.at # "idle" /\ ~itx.held) =>
        (itx.at = "done" /\ itx.ret # "ok" /\ iwire = <<>>)

----------------------------------------------------------------------------
\* One call of device.mpsseVerify (i2c.go:502-532) against a device that
\* answers each probe with an echo of its choice, byte by byte, at times of
\* its choice.  Time is counted in polls: MaxPolls of them fit in the 200 ms
\* given to a probe.

outsideVerify ==
    <<handleVars, concVars, bringVars, i2cVars, clockVars, spiVars, syncVars,
      pinVars, txVars, rVars, lVars>>

\* What the device sends back for probe v: the echo, an echo of another
\* byte, or nothing.
Echoes(v) == {<<badCommand, v>>, <<badCommand, 0>>, <<>>}

\* The polls at which the two bytes of the echo get into the receive
\* queue; MaxPolls + 1 stands for after the 200 ms.
Arrivals == {a \in (1 .. MaxPolls + 1) \X (1 .. MaxPolls + 1) : a[1] <= a[2]}

\* n of 'n, err := d.read(b[:])' at poll j: the bytes of the echo that are
\* in the queue, two at most.
arrived(echo, a, j) == Cardinality({k \in 1 .. Len(echo) : a[k] <= j})

\* b after a read of n bytes
readInto(b, echo, n) == [k \in 1 .. 2 |-> IF k <= n THEN echo[k] ELSE b[k]]

\* 'time.Since(start) < 200*time.Millisecond' is false
pollTimeOverNever(polls) == FALSE

pollTimeOver(polls) == polls >= MaxPolls

\* 'b[0] != 0xFA || b[1] != v'
echoMismatch(b, v) == b[1] # badCommand \/ b[2] # v

VBegin ==
    /\ vf.at = "idle"
    /\ vf' = [at |-> "write", probe |-> 1, polls |-> 0, b |-> <<0, 0>>,
              echo |-> <<>>, a |-> <<1, 1>>, failAt |-> 0, good |-> TRUE,
              ioErr |-> FALSE, ret |-> "none"]
    /\ UNCHANGED outsideVerify

\* d.write([]byte{v}); the device chooses its answer, and the transport the
\* poll at which d.read fails (0: at none).
VWrite ==
    /\ vf.at = "write"
    /\ \E ok \in BOOLEAN, echo \in Echoes(probeByte(vf.probe)), a \in Arrivals,
          failAt \in 0 .. MaxPolls :
         IF ~ok
         THEN /\ echo = <<>> /\ a = <<1, 1>> /\ failAt = 0
              /\ vf' = [vf EXCEPT !.at = "done", !.ret = "errIO", !.ioErr = TRUE]
         ELSE /\ (echo = <<>> => a = <<1, 1>>)
              /\ vf' = [vf EXCEPT
                          !.at = "poll", !.polls = 0, !.b = <<0, 0>>,
                          !.echo = echo, !.a = a, !.failAt = failAt,
                          !.good = vf.good /\ echo = <<badCommand, probeByte(vf.probe)>>
                                   /\ a[2] <= MaxPolls]
    /\ UNCHANGED outsideVerify

\* One turn of the polling loop: the time is over, or d.read(b[:]) fails,
\* returns no byte, or returns bytes that are compared with the echo.  polls
\* stops counting one past MaxPolls.
VPoll ==
    /\ vf.at = "poll"
    /\ IF pollTimeOver(vf.polls)
       THEN vf' = [vf EXCEPT !.at = "done", !.ret = "errVerify"]
       ELSE   LET ok == vf.failAt # vf.polls + 1
                  j == Min(vf.polls + 1, MaxPolls + 1)
                  n == Min(arrived(vf.echo, vf.a, vf.polls + 1), 2)
                  b == readInto(vf.b, vf.echo, n)
              IN  IF ~ok
                  THEN vf' = [vf EXCEPT !.at = "done", !.ret = "errIO",
                                        !.ioErr = TRUE, !.polls = j]
                  ELSE IF n = 0
                  THEN vf' = [vf EXCEPT !.polls = j]
                  ELSE IF echoMismatch(b, probeByte(vf.probe))
                  THEN vf' = [vf EXCEPT !.at = "done", !.ret = "errVerify",
                                        !.b = b, !.polls = j]
                  ELSE IF vf.probe = 1
                  THEN vf' = [vf EXCEPT !.at = "write", !.probe = 2, !.b = b,
                                        !.polls = j]
                  ELSE vf' = [vf EXCEPT !.at = "done", !.ret = "ok", !.b = b,
                                        !.polls = j]
    /\ UNCHANGED outsideVerify

\* The caller has the result; mpsseVerify may be called again.
VReturn ==
    /\ vf.at = "done"
    /\ vf' = NoVerify
    /\ UNCHANGED outsideVerify

InitVerify == Init

NextVerify == VBegin \/ VWrite \/ VPoll \/ VReturn

SpecVerify == InitVerify /\ [][NextVerify]_vars

\* The goroutine that runs mpsseVerify is scheduled again and again and none
\* of its calls blocks.
SpecVerifyFair == SpecVerify /\ WF_vars(NextVerify)

\* C37: when no transport call failed and the device has put the two bytes
\* <0xFA, probe> of each probe written in the receive queue within the 200 ms
\* of that probe, in one piece or one byte at a time, the verification of
\* each probe succeeded: mpsseVerify has returned nil.
C37_SplitEchoAccepted ==
    (vf.at = "done" /\ vf.good /\ ~vf.ioErr) => vf.ret = "ok"

\* C38: mpsseVerify always returns; it makes no more polls for a probe than
\* fit in the 200 ms; when the device sent no byte for a probe it has
\* returned the verification error; when a transport call failed it has
\* returned that error.
C38_VerifyTerminates ==
    /\ [](vf.at # "idle" => vf.polls <= MaxPolls)
    /\ []((vf.at = "done" /\ vf.ioErr) => vf.ret = "errIO")
    /\ []((vf.at = "done" /\ ~vf.ioErr /\ vf.echo = <<>>) => vf.ret = "errVerify")
    /\ ((vf.at \in {"write", "poll"}) ~> (vf.at = "done"))

\* The device never answered the first probe: the polls of the 200 ms were
\* made and the verification error came back.
C38_Witness ==
    /\ vf.at = "done" /\ vf.ret = "errVerify"
    /\ vf.probe = 1 /\ vf.echo = <<>> /\ vf.polls = MaxPolls /\ ~vf.ioErr

----------------------------------------------------------------------------
\* The line-level helpers of i2cBus (i2c.go:145-287) on a handle whose pins
\* D3 and D7 are also used as GPIO between the helpers.  Each helper builds
\* one command; its pin-bank frames are kept as <<value byte, direction
\* byte>>, the order of the bytes after gpioSetD.

outsideLines ==
    <<concVars, bringVars, i2cVars, clockVars, spiVars, syncVars, pinVars,
      txVars, rVars, vVars>>

\* The pins of bank D the caller drives as GPIO.
GpioPins == {3, 7}

\* Bits 3..7 of a byte.
upperBits(b) == BitAnd(b, idleMask)

Times(n, f) == [k \in 1 .. n |-> f]

\* setI2CLinesIdle (i2c.go:148-157)
idleFrames(v, dir) ==
    <<<<BitOr(setI2CLinesIdleValue(v), i2cD0 + i2cD1), setI2CLinesIdleDirection(dir)>>>>

\* setI2CStart (i2c.go:172-182): SCL high four times, SCL low three times.
startFramesFixedDirection(v, dir) ==
    Times(4, <<BitOr(v, i2cD0), i2cD0 + i2cD1>>) \o Times(3, <<v, i2cD0 + i2cD1>>)

startFrames(v, dir) ==
    Times(4, <<BitOr(v, i2cD0), dir>>) \o Times(3, <<v, dir>>)

\* setI2CStop (i2c.go:196-212)
stopFrames(v, dir) ==
    Times(4, <<v, dir>>) \o Times(4, <<BitOr(v, i2cD0), dir>>)
    \o Times(4, <<BitOr(v, i2cD0 + i2cD1), dir>>)

\* writeBytes (i2c.go:228-236) and readBytes (i2c.go:265-274): the frame in
\* the command of each byte.
byteFrames(v, dir) == <<<<BitOr(v, i2cD0 + i2cD1), dir>>>>

LineOps == {"start", "stop", "write", "read"}

framesOf(op, v, dir) ==
    CASE op = "start" -> startFrames(v, dir)
      [] op = "stop" -> stopFrames(v, dir)
      [] OTHER -> byteFrames(v, dir)

Ran(op, frames, ok) ==
    [op |-> op, dir0 |-> dbusDirection, v0 |-> dbusValue, frames |-> frames,
     ok |-> ok]

\* The frame the device holds once the engine has run the frames written.
lastFrame(frames) == frames[Len(frames)]

LSetI2CLinesIdle ==
    /\ dbusDirection' = setI2CLinesIdleDirection(dbusDirection)
    /\ dbusValue' = setI2CLinesIdleValue(dbusValue)
    /\ \E ok \in BOOLEAN :
         /\ il' = Ran("idle", idleFrames(dbusValue, dbusDirection), ok)
         /\ devD' = IF ok THEN lastFrame(idleFrames(dbusValue, dbusDirection)) ELSE devD
    /\ UNCHANGED <<usingI2C, usingSPI, maxFreq, connFlags, i2cOpen, spiPort, last>>
    /\ UNCHANGED outsideLines

\* setI2CStart, setI2CStop, one byte of writeBytes, one byte of readBytes:
\* the caches are read, never written.
LLineOp(op) ==
    /\ \E ok \in BOOLEAN :
         /\ il' = Ran(op, framesOf(op, dbusValue, dbusDirection), ok)
         /\ devD' = IF ok THEN lastFrame(framesOf(op, dbusValue, dbusDirection)) ELSE devD
    /\ UNCHANGED <<usingI2C, usingSPI, maxFreq, connFlags, dbusDirection, dbusValue,
                   i2cOpen, spiPort, last>>
    /\ UNCHANGED outsideLines

\* gpiosMPSSE.out and gpiosMPSSE.in on one of the GPIO pins, between two
\* helpers.
LPinOut(n, l) ==
    /\ dbusDirection' = outDirection(dbusDirection, n)
    /\ dbusValue' = outValue(dbusValue, n, l)
    /\ \E ok \in BOOLEAN :
         /\ il' = Ran("out", <<>>, ok)
         /\ devD' = IF ok THEN mpsseDBus(outDirection(dbusDirection, n),
                                       outValue(dbusValue, n, l))
                    ELSE devD
    /\ UNCHANGED <<usingI2C, usingSPI, maxFreq, connFlags, i2cOpen, spiPort, last>>
    /\ UNCHANGED outsideLines

LPinIn(n) ==
    /\ dbusDirection' = inDirection(dbusDirection, n)
    /\ \E ok \in BOOLEAN :
         /\ il' = Ran("in", <<>>, ok)
         /\ devD' = IF ok THEN mpsseDBus(inDirection(dbusDirection, n), dbusValue)
                    ELSE devD
    /\ UNCHANGED <<usingI2C, usingSPI, maxFreq, connFlags, dbusValue, i2cOpen,
                   spiPort, last>>
    /\ UNCHANGED outsideLines

InitLines == InitI2C

NextLines ==
    \/ LSetI2CLinesIdle
    \/ \E op \in LineOps : LLineOp(op)
    \/ \E n \in GpioPins, l \in Levels : LPinOut(n, l)
    \/ \E n \in GpioPins : LPinIn(n)

SpecLines == InitLines /\ [][NextLines]_vars

\* C39: every pin-bank frame of the command the last I2C helper (idle,
\* start, stop, byte write, byte read) built has in bits 3..7 of its value
\* byte and of its direction byte the bits 3..7 of the cached value and
\* direction, and the helper has left bits 3..7 of both caches as it found
\* them.
C39_UpperPinsUntouched ==
    il.op \in LineOps \cup {"idle"} =>
        /\ upperBits(dbusValue) = upperBits(il.v0)
        /\ upperBits(dbusDirection) = upperBits(il.dir0)
        /\ \A k \in 1 .. Len(il.frames) :
               /\ upperBits(il.frames[k][1]) = upperBits(il.v0)
               /\ upperBits(il.frames[k][2]) = upperBits(il.dir0)

\* A start condition written while D7 is an output driven high and D3 an
\* input.
C39_Witness ==
    /\ il.op = "start"
    /\ il.ok
    /\ Len(il.frames) = 7
    /\ upperBits(dbusDirection) = 128
    /\ upperBits(dbusValue) = 128

----------------------------------------------------------------------------
\* The address byte and the start conditions of i2cBus.Tx (i2c.go:63-89).

IsStart(e) == e.op = "start"

IsOut(e) == e.op = "out"

\* C40: in an I2C Tx the byte clocked out right after the start condition
\* is addr modulo 256, neither shifted nor completed with a read/write bit;
\* the transaction has one start condition, at its beginning, and one
\* address byte: the bytes written after it are those of w, and every byte
\* read follows a written or a read byte directly.
C40_AddressByteSingleStart ==
    itx.at # "idle" =>
        /\ Len(SelectSeq(iwire, IsStart)) <= 1
        /\ Len(iwire) >= 1 => iwire[1].op = "start"
        /\ Len(iwire) >= 2 => (iwire[2].op = "out" /\ iwire[2].b = itx.addr % 256)
        /\ Len(SelectSeq(iwire, IsOut)) <= 1 + Len(itx.w)
        /\ \A k \in 3 .. Len(iwire) :
               /\ iwire[k].op = "out" => (k - 2 <= Len(itx.w) /\ iwire[k].b = itx.w[k - 2])
               /\ iwire[k].op = "in" => iwire[k - 1].op \in {"out", "in"}

\* A write of one byte and a read of one byte at a ten-bit address, done.
C40_Witness ==
    /\ itx.at = "done"
    /\ itx.ret = "ok"
    /\ itx.addr = 336
    /\ Len(itx.w) = 1
    /\ itx.nr = 1
    /\ [k \in 1 .. Len(iwire) |-> iwire[k].op] = <<"start", "out", "out", "in", "stop", "idle">>
    /\ iwire[2].b = 80

====
